---- MODULE Spec2Model ----
(***************************************************************************)
(* A model of the CSE market-data pipeline: the polling scheduler of       *)
(* main.py (run_pipeline), the fetcher's result classes (fetcher.py) and   *)
(* the time-series store, reference table and legacy writer of storage.py. *)
(*                                                                         *)
(* Time is a wall clock counted in ticks of 60/TicksPerMinute seconds from *)
(* Monday 00:00.  A payload is represented by its shape class: "none" (the *)
(* absent value None), "good" (a mapping, or a list or an enveloped list   *)
(* of mapping records: the shape the consumer expects) and "odd" (a truthy *)
(* JSON value of another shape: a list of scalars such as ["x"]).          *)
(***************************************************************************)
EXTENDS Integers, Sequences, FiniteSets, TLC

VARIABLES
    now,                     \* the wall clock, in ticks
    pc,                      \* the position of run_pipeline
    symbol_refreshed_today,  \* main.py:85
    cyc,                     \* the locals of the current poll cycle
    files,                   \* the time-series store: <<endpoint, minute>> -> artifact
    dirs,                    \* the endpoint directories that exist
    ref,                     \* reference/symbol_metadata.json
    csv,                     \* the legacy history file (rows after the header)
    snap,                    \* the legacy latest-snapshot file
    env,                     \* the environment: absent results and faults so far, and their limits
    wlog,                    \* history: every save_endpoint_data call, in order
    rlog,                    \* history: every execution of step 9 (the daily refresh)
    epoch,                   \* history: the number of market-closed wake-ups so far
    t0,                      \* history: the instant run_pipeline started
    input,                   \* the arguments of a function that is applied on its own
    output                   \* the result of that function

vars == <<now, pc, symbol_refreshed_today, cyc, files, dirs, ref, csv, snap,
          env, wlog, rlog, epoch, t0, input, output>>

----------------------------------------------------------------------------
(* Bounds of the model *)

TicksPerMinute == 2   \* clock resolution: ticks in one minute
MaxCycles == 2        \* poll cycles followed in one run
MaxEvents == 1        \* anomalies in one run: absent results, odd shapes, I/O errors,
                      \* interrupts
MaxSaves == 3         \* save_endpoint_data calls followed by StoreSpec
MaxAbsent == 13       \* absent results in the cycle followed by IsolationSpec: every
                      \* request of a cycle with one symbol may return nothing

(* Program constants *)

POLL_INTERVAL_SECONDS == 60
RETRY_DELAY_SECONDS == 60
MARKET_OPEN_HOUR == 9
MARKET_OPEN_MINUTE == 0
MARKET_CLOSE_HOUR == 14
MARKET_CLOSE_MINUTE == 35
SYMBOL_REFRESH_HOUR == 9
SYMBOL_REFRESH_MINUTE == 5
CLOSED_SLEEP_SECONDS == 900
REFRESH_WINDOW_MINUTES == 5
ENABLE_LEGACY_CSV == TRUE

----------------------------------------------------------------------------
(* The clock *)

TicksPerDay == 24 * 60 * TicksPerMinute

Ticks(seconds) == (seconds * TicksPerMinute) \div 60

At(day, hour, minute) == day * TicksPerDay + (hour * 60 + minute) * TicksPerMinute

DayOf(t) == t \div TicksPerDay

\* datetime.weekday(): Monday is 0
Weekday(t) == DayOf(t) % 7

TickOfDay(t) == t % TicksPerDay

MinuteOfDay(t) == TickOfDay(t) \div TicksPerMinute

Abs(x) == IF x < 0 THEN -x ELSE x

Max(a, b) == IF a >= b THEN a ELSE b

\* datetime.now() (main.py:38, 54): the naive local time of the host, whose
\* zone is env.zone minutes ahead of UTC+5:30; the clock now is the time in
\* UTC+5:30, which is what get_timestamp returns (storage.py:106-107)
datetime_now == now + env.zone * TicksPerMinute

\* main.py:33-48
is_market_hours(t) ==
    IF Weekday(t) >= 5 THEN FALSE
    ELSE /\ (MARKET_OPEN_HOUR * 60 + MARKET_OPEN_MINUTE) * TicksPerMinute <= TickOfDay(t)
         /\ TickOfDay(t) <= (MARKET_CLOSE_HOUR * 60 + MARKET_CLOSE_MINUTE) * TicksPerMinute

\* main.py:50-62
should_refresh_symbols(t) ==
    Abs(MinuteOfDay(t) - (SYMBOL_REFRESH_HOUR * 60 + SYMBOL_REFRESH_MINUTE))
        <= REFRESH_WINDOW_MINUTES

\* storage.py:102-107: the ISO timestamp of the instant t
get_timestamp(t) == t

\* storage.py:150-151: timestamp[:16], the timestamp truncated to the minute
MinuteKey(timestamp) == timestamp \div TicksPerMinute

----------------------------------------------------------------------------
(* Payload shape classes *)

Shapes == {"none", "good", "odd"}

\* Python truthiness of a payload of the shape
Truthy(p) == p # "none"

----------------------------------------------------------------------------
(* The time-series store (storage.py) *)

NoFiles == [k \in {} |-> [state |-> "complete", fetched_at |-> 0,
                          endpoint |-> "", data |-> "none"]]

Put(f, k, v) == [x \in (DOMAIN f) \cup {k} |-> IF x = k THEN v ELSE f[x]]

\* The outcomes of one save_endpoint_data call that the environment decides:
\*   ok          every step succeeds
\*   mkdir_fail  os.makedirs raises OSError (only when the directory is missing)
\*   open_fail   open(filepath, 'w') raises IOError: nothing is created or truncated
\*   write_fail  json.dump raises IOError after open() has truncated the file
\*   interrupt   KeyboardInterrupt is delivered while json.dump is writing
SaveOutcomes(d, endpoint_name, data) ==
    IF data = "none" THEN {"ok"}
    ELSE {"ok", "open_fail", "write_fail", "interrupt"}
         \cup (IF endpoint_name \in d THEN {} ELSE {"mkdir_fail"})

\* storage.py:109-123
create_endpoint_directory(d, endpoint_name, out) ==
    IF endpoint_name \in d THEN [dirs |-> d, exc |-> "none"]
    ELSE IF out = "mkdir_fail" THEN [dirs |-> d, exc |-> "OSError"]
    ELSE [dirs |-> d \cup {endpoint_name}, exc |-> "none"]

\* A variant of ArtifactKey: the filename built from timestamp[:13], the timestamp
\* truncated to the hour
ArtifactKey_hourly(endpoint_name, timestamp) ==
    <<endpoint_name, timestamp \div (60 * TicksPerMinute)>>

\* storage.py:147-151: the path of an artifact, <endpoint>/<date>_<hour>-<minute>.json
ArtifactKey(endpoint_name, timestamp) ==
    <<endpoint_name, MinuteKey(timestamp)>>

Artifact(st, endpoint_name, data, timestamp) ==
    [state |-> st, fetched_at |-> timestamp, endpoint |-> endpoint_name, data |-> data]

\* storage.py:125-168.  The result: the store after the call, the return value
\* ("None" or "path"), the exception that escapes ("none" if the call returns)
\* and whether open() has truncated or created the file.
save_endpoint_data(f, d, endpoint_name, data, timestamp, out) ==
    IF data = "none"
    THEN [files |-> f, dirs |-> d, ret |-> "None", exc |-> "none", opened |-> FALSE]
    ELSE LET cd == create_endpoint_directory(d, endpoint_name, out)
             key == ArtifactKey(endpoint_name, timestamp)
         IN  IF cd.exc # "none"
             THEN [files |-> f, dirs |-> cd.dirs, ret |-> "None", exc |-> cd.exc,
                   opened |-> FALSE]
             ELSE CASE out = "open_fail" ->
                         [files |-> f, dirs |-> cd.dirs, ret |-> "None", exc |-> "none",
                          opened |-> FALSE]
                    [] out = "write_fail" ->
                         [files |-> Put(f, key, Artifact("partial", endpoint_name, data, timestamp)),
                          dirs |-> cd.dirs, ret |-> "None", exc |-> "none", opened |-> TRUE]
                    [] out = "interrupt" ->
                         [files |-> Put(f, key, Artifact("partial", endpoint_name, data, timestamp)),
                          dirs |-> cd.dirs, ret |-> "None", exc |-> "KeyboardInterrupt",
                          opened |-> TRUE]
                    [] OTHER ->
                         [files |-> Put(f, key, Artifact("complete", endpoint_name, data, timestamp)),
                          dirs |-> cd.dirs, ret |-> "path", exc |-> "none", opened |-> TRUE]

\* The history entry of one save_endpoint_data call
SaveEvent(cycle, endpoint_name, data, timestamp, out, r, existed) ==
    [cycle |-> cycle, endpoint |-> endpoint_name, data |-> data, ts |-> timestamp,
     minute |-> MinuteKey(timestamp), out |-> out, ret |-> r.ret, exc |-> r.exc,
     opened |-> r.opened, existed |-> existed]

----------------------------------------------------------------------------
(* The environment's budget: the bounds are limits on what one run draws *)

Cost(p) == [absent |-> IF p = "none" THEN 1 ELSE 0,
            faults |-> IF p \in {"odd", "empty_row"} THEN 1 ELSE 0]

OutCost(out) == IF out = "ok" THEN 0 ELSE 1

\* a more absent results and f more faults are within the limits of the run
Within(a, f) == /\ env.absent + env.faults + a + f <= env.limEvents
                /\ env.faults + f <= env.limFaults

Spend(a, f) == [env EXCEPT !.absent = @ + a, !.faults = @ + f]

----------------------------------------------------------------------------
(* run_pipeline (main.py:64-262) *)

NoCycle == [no |-> 0, cycle_start |-> 0, timestamp |-> 0,
            endpoints_fetched |-> <<>>, endpoints_failed |-> <<>>,
            absent |-> {},
            posted |-> <<>>,          \* history: the endpoints requested, in order
            status_data |-> "none", market_summary |-> "none",
            trade_summary |-> "none", share_prices |-> "none",
            aspi_data |-> "none", snp_data |-> "none",
            all_sectors |-> "none", gainers |-> "none", losers |-> "none",
            symbols |-> <<>>, company_data_list |-> <<>>]

\* main.py:95-104.  The locals of a cycle are assigned before they are read, so
\* the values of the previous cycle are never observed.
NewCycle(t) == [NoCycle EXCEPT !.no = cyc.no + 1, !.cycle_start = t,
                               !.timestamp = get_timestamp(t)]

\* Where control goes when exception exc leaves a step of the cycle body:
\* main.py:254-258 (KeyboardInterrupt: break) and main.py:259-262 (Exception).
AfterStep(exc, next) ==
    CASE exc = "none" -> next
      [] exc = "KeyboardInterrupt" -> "stopped"
      [] OTHER -> "backoff"

\* fetcher.py:42-64: one POST request to the endpoint, added to the history
post(posted, endpoint) == Append(posted, endpoint)

\* One storage.save_endpoint_data call of the current cycle, from state s
\* (files, dirs, wlog, exc): skipped once an exception is under way.
Save(s, endpoint_name, data, timestamp, out) ==
    IF s.exc # "none" THEN s
    ELSE LET r == save_endpoint_data(s.files, s.dirs, endpoint_name, data, timestamp, out)
             existed == ArtifactKey(endpoint_name, timestamp) \in DOMAIN s.files
         IN  [files |-> r.files, dirs |-> r.dirs, exc |-> r.exc,
              wlog |-> Append(s.wlog, SaveEvent(cyc.no, endpoint_name, data, timestamp,
                                                out, r, existed))]

Store == [files |-> files, dirs |-> dirs, exc |-> "none", wlog |-> wlog]

\* A variant of MarketClosed that leaves the refreshed-today flag as it is
MarketClosed_keeps_flag ==
    /\ pc = "wake"
    /\ ~is_market_hours(datetime_now)
    /\ cyc.no < env.limCycles
    /\ symbol_refreshed_today' = symbol_refreshed_today
    /\ epoch' = epoch + 1
    /\ \/ /\ now' = now + Ticks(CLOSED_SLEEP_SECONDS)
          /\ pc' = "wake"
          /\ env' = env
       \/ /\ Within(0, 1)
          /\ now' = now
          /\ pc' = "stopped"
          /\ env' = Spend(0, 1)
    /\ UNCHANGED <<cyc, files, dirs, ref, csv, snap, wlog, rlog, t0, input, output>>

\* main.py:89-93
MarketClosed ==
    /\ pc = "wake"
    /\ ~is_market_hours(datetime_now)
    /\ cyc.no < env.limCycles
    /\ symbol_refreshed_today' = FALSE
    /\ epoch' = epoch + 1
    /\ \/ /\ now' = now + Ticks(CLOSED_SLEEP_SECONDS)
          /\ pc' = "wake"
          /\ env' = env
       \/ /\ Within(0, 1)              \* KeyboardInterrupt during time.sleep(900)
          /\ now' = now
          /\ pc' = "stopped"
          /\ env' = Spend(0, 1)
    /\ UNCHANGED <<cyc, files, dirs, ref, csv, snap, wlog, rlog, t0, input, output>>

\* main.py:95-104
CycleStart ==
    /\ pc = "wake"
    /\ is_market_hours(datetime_now)
    /\ cyc.no < env.limCycles
    /\ cyc' = NewCycle(now)
    /\ pc' = "status"
    /\ UNCHANGED <<now, symbol_refreshed_today, files, dirs, ref, csv, snap, env,
                   wlog, rlog, epoch, t0, input, output>>

\* The time the eight fetch steps of a cycle take together: less than a tick, or
\* one tick.  The clock is read at lines 95-96, 202, 246 and storage.py:248 only,
\* so the time is added at the last fetch step.
FetchTicks(here) == IF here = "movers" THEN {0, 1} ELSE {0}

\* The shapes a response is drawn from.  The shape of tradeSummary (line 131),
\* aspiData and snpData is never inspected: they are saved as they are.
ShapesOf(endpoint_name) ==
    IF endpoint_name \in {"tradeSummary", "aspiData", "snpData"} THEN {"none", "good"}
    ELSE Shapes

\* A fetch whose result is saved when truthy and listed as failed otherwise:
\* main.py:129-138, 140-149, 151-160, 162-171, 173-182
PlainFetch(here, next, endpoint_name, local) ==
    /\ pc = here
    /\ \E p \in ShapesOf(endpoint_name), d \in FetchTicks(here) :
         \E out \in (IF Truthy(p) THEN SaveOutcomes(dirs, endpoint_name, p) ELSE {"ok"}) :
            /\ Within(Cost(p).absent, Cost(p).faults + OutCost(out))
            /\ env' = Spend(Cost(p).absent, Cost(p).faults + OutCost(out))
            /\ now' = now + d
            /\ IF Truthy(p)
               THEN LET s == Save(Store, endpoint_name, p, cyc.timestamp, out)
                    IN  /\ files' = s.files
                        /\ dirs' = s.dirs
                        /\ wlog' = s.wlog
                        /\ pc' = AfterStep(s.exc, next)
                        /\ cyc' = IF s.exc = "none"
                                  THEN [cyc EXCEPT !.endpoints_fetched = Append(@, endpoint_name),
                                                   !.posted = post(@, endpoint_name),
                                                   ![local] = p]
                                  ELSE [cyc EXCEPT !.posted = post(@, endpoint_name),
                                                   ![local] = p]
               ELSE /\ UNCHANGED <<files, dirs, wlog>>
                    /\ pc' = next
                    /\ cyc' = [cyc EXCEPT !.endpoints_failed = Append(@, endpoint_name),
                                          !.absent = @ \cup {endpoint_name},
                                          !.posted = post(@, endpoint_name),
                                          ![local] = p]
    /\ UNCHANGED <<symbol_refreshed_today, ref, csv, snap, rlog, epoch, t0, input, output>>

\* main.py:106-116.  An odd status (a list) is truthy and has no .get: line 110
\* raises AttributeError before anything is saved.
FetchMarketStatus ==
    /\ pc = "status"
    /\ \E p \in ShapesOf("marketStatus"), d \in FetchTicks("status") :
         \E out \in (IF p = "good" THEN SaveOutcomes(dirs, "marketStatus", p) ELSE {"ok"}) :
            /\ Within(Cost(p).absent, Cost(p).faults + OutCost(out))
            /\ env' = Spend(Cost(p).absent, Cost(p).faults + OutCost(out))
            /\ now' = now + d
            /\ CASE p = "good" ->
                      LET s == Save(Store, "marketStatus", p, cyc.timestamp, out)
                      IN  /\ files' = s.files
                          /\ dirs' = s.dirs
                          /\ wlog' = s.wlog
                          /\ pc' = AfterStep(s.exc, "summary")
                          /\ cyc' = IF s.exc = "none"
                                    THEN [cyc EXCEPT !.endpoints_fetched = Append(@, "marketStatus"),
                                                     !.posted = post(@, "marketStatus"),
                                                     !.status_data = p]
                                    ELSE [cyc EXCEPT !.posted = post(@, "marketStatus"),
                                                     !.status_data = p]
                 [] p = "odd" ->
                      /\ UNCHANGED <<files, dirs, wlog>>
                      /\ pc' = AfterStep("AttributeError", "summary")
                      /\ cyc' = [cyc EXCEPT !.posted = post(@, "marketStatus"),
                                            !.status_data = p]
                 [] OTHER ->
                      /\ UNCHANGED <<files, dirs, wlog>>
                      /\ pc' = "summary"
                      /\ cyc' = [cyc EXCEPT !.endpoints_failed = Append(@, "marketStatus"),
                                            !.absent = @ \cup {"marketStatus"},
                                            !.posted = post(@, "marketStatus"),
                                            !.status_data = p]
    /\ UNCHANGED <<symbol_refreshed_today, ref, csv, snap, rlog, epoch, t0, input, output>>

\* fetcher.py:70-94.  ms is the marketSummery response and daily the
\* dailyMarketSummery response, fetched only when ms is no mapping; "empty_row"
\* is a daily response whose first record is an empty list.  The result is a
\* shape, or "raise" when line 92 raises IndexError.
DailyShapes == Shapes \cup {"empty_row"}

\* fetcher.py:72, 77, 81, 89: the requests of get_market_summary
get_market_summary_posts(posted, ms) ==
    IF ms = "good"                     \* isinstance(data, dict)
    THEN post(post(post(posted, "marketSummery"), "aspiData"), "snpData")
    ELSE post(post(posted, "marketSummery"), "dailyMarketSummery")

get_market_summary(ms, daily) ==
    IF ms = "good" THEN "good"
    ELSE CASE daily = "good" -> "good"
           [] daily = "odd" -> "odd"
           [] daily = "empty_row" -> "raise"
           [] OTHER -> "none"

\* main.py:118-127
FetchMarketSummary ==
    /\ pc = "summary"
    /\ \E ms \in Shapes, daily \in DailyShapes, d \in FetchTicks("summary") :
         LET fetched == ms # "good"       \* whether the fallback request is made
             p == get_market_summary(ms, daily)
             sent == get_market_summary_posts(cyc.posted, ms)
             a == Cost(ms).absent + (IF fetched THEN Cost(daily).absent ELSE 0)
             f == Cost(ms).faults + (IF fetched THEN Cost(daily).faults ELSE 0)
         IN  /\ fetched \/ daily = "none"
             /\ \E out \in (IF p \in {"good", "odd"} THEN SaveOutcomes(dirs, "marketSummery", p)
                            ELSE {"ok"}) :
                  /\ Within(a, f + OutCost(out))
                  /\ env' = Spend(a, f + OutCost(out))
                  /\ now' = now + d
                  /\ CASE p = "raise" ->
                            /\ UNCHANGED <<files, dirs, wlog>>
                            /\ pc' = AfterStep("IndexError", "trade")
                            /\ cyc' = [cyc EXCEPT !.posted = sent]
                       [] p = "none" ->
                            /\ UNCHANGED <<files, dirs, wlog>>
                            /\ pc' = "trade"
                            /\ cyc' = [cyc EXCEPT !.endpoints_failed = Append(@, "marketSummery"),
                                                  !.absent = @ \cup {"marketSummery"},
                                                  !.posted = sent,
                                                  !.market_summary = p]
                       [] OTHER ->
                            LET s == Save(Store, "marketSummery", p, cyc.timestamp, out)
                            IN  /\ files' = s.files
                                /\ dirs' = s.dirs
                                /\ wlog' = s.wlog
                                /\ pc' = AfterStep(s.exc, "trade")
                                /\ cyc' = IF s.exc = "none"
                                          THEN [cyc EXCEPT !.endpoints_fetched = Append(@, "marketSummery"),
                                                           !.posted = sent,
                                                           !.market_summary = p]
                                          ELSE [cyc EXCEPT !.posted = sent,
                                                           !.market_summary = p]
    /\ UNCHANGED <<symbol_refreshed_today, ref, csv, snap, rlog, epoch, t0, input, output>>

\* main.py:129-138
FetchTradeSummary == PlainFetch("trade", "prices", "tradeSummary", "trade_summary")

\* main.py:140-149
FetchSharePrices == PlainFetch("prices", "aspi", "todaySharePrice", "share_prices")

\* main.py:151-160
FetchAspi == PlainFetch("aspi", "snp", "aspiData", "aspi_data")

\* main.py:162-171
FetchSnp == PlainFetch("snp", "sectors", "snpData", "snp_data")

\* main.py:173-182
FetchSectors == PlainFetch("sectors", "movers", "allSectors", "all_sectors")

\* A variant of get_top_movers_posts: the request for the most active trades,
\* which the docstring says has been removed, is still made
get_top_movers_posts_active(posted) ==
    post(post(post(posted, "topGainers"), "topLooses"), "mostActiveTrades")

\* fetcher.py:157-160: the requests of get_top_movers
get_top_movers_posts(posted) == post(post(posted, "topGainers"), "topLooses")

\* main.py:184-199 with fetcher.py:149-160.  get_top_movers returns a mapping with
\* both keys whatever the two requests return, so line 187 always takes the
\* first branch and 'topMovers' is never listed as failed.
FetchMovers ==
    /\ pc = "movers"
    /\ \E g \in Shapes, l \in Shapes, d \in FetchTicks("movers") :
         \E og \in SaveOutcomes(dirs, "topGainers", g), ol \in SaveOutcomes(dirs, "topLooses", l) :
            LET s1 == Save(Store, "topGainers", g, cyc.timestamp, og)
                sg == IF Truthy(g) THEN s1 ELSE Store
                sl == IF Truthy(l) THEN Save(sg, "topLooses", l, cyc.timestamp, ol) ELSE sg
                reached == sg.exc = "none"     \* line 193 is reached
                a == Cost(g).absent + Cost(l).absent
                f == Cost(g).faults + Cost(l).faults + OutCost(og) + OutCost(ol)
                got == (IF Truthy(g) /\ sg.exc = "none" THEN <<"topGainers">> ELSE <<>>)
                       \o (IF Truthy(l) /\ sl.exc = "none" THEN <<"topLooses">> ELSE <<>>)
            IN  /\ Truthy(g) \/ og = "ok"
                /\ (Truthy(l) /\ reached) \/ ol = "ok"
                /\ Within(a, f)
                /\ env' = Spend(a, f)
                /\ now' = now + d
                /\ files' = sl.files
                /\ dirs' = sl.dirs
                /\ wlog' = sl.wlog
                /\ pc' = AfterStep(sl.exc, "refresh")
                /\ cyc' = [cyc EXCEPT !.endpoints_fetched = @ \o got,
                                      !.absent = @ \cup (IF Truthy(g) THEN {} ELSE {"topGainers"})
                                                   \cup (IF Truthy(l) THEN {} ELSE {"topLooses"}),
                                      !.posted = get_top_movers_posts(@),
                                      !.gainers = g, !.losers = l]
    /\ UNCHANGED <<symbol_refreshed_today, ref, csv, snap, rlog, epoch, t0, input, output>>

----------------------------------------------------------------------------
(* The symbol reference table (storage.py:170-236) *)

NoRef == [state |-> "absent", generated_at |-> 0, symbols |-> "none"]

RefOutcomes(price_data, sectors_data) ==
    IF price_data = "odd" \/ sectors_data = "odd" THEN {"ok"}
    ELSE {"ok", "open_fail", "write_fail", "interrupt"}

\* storage.py:170-236.  An odd price list is a list whose items have no .get
\* (line 194 raises), an odd sector list likewise (line 216 raises): both loops
\* run before the file is opened.  The result: the reference file, the return
\* value ("None" or "reference") and the exception that escapes.
build_symbol_reference(r, price_data, sectors_data, t, out) ==
    CASE price_data = "odd" -> [ref |-> r, ret |-> "None", exc |-> "AttributeError"]
      [] Truthy(sectors_data) /\ sectors_data = "odd" ->
            [ref |-> r, ret |-> "None", exc |-> "AttributeError"]
      [] out = "open_fail" -> [ref |-> r, ret |-> "None", exc |-> "none"]
      [] out = "write_fail" ->
            [ref |-> [state |-> "partial", generated_at |-> get_timestamp(t),
                      symbols |-> price_data],
             ret |-> "None", exc |-> "none"]
      [] out = "interrupt" ->
            [ref |-> [state |-> "partial", generated_at |-> get_timestamp(t),
                      symbols |-> price_data],
             ret |-> "None", exc |-> "KeyboardInterrupt"]
      [] OTHER ->
            [ref |-> [state |-> "complete", generated_at |-> get_timestamp(t),
                      symbols |-> price_data],
             ret |-> "reference", exc |-> "none"]

\* The history entry of one execution of step 9
RefreshEvent(invoked, result) ==
    [cycle |-> cyc.no, day |-> DayOf(now), epoch |-> epoch, at |-> now,
     window |-> should_refresh_symbols(datetime_now), flag |-> symbol_refreshed_today,
     prices |-> cyc.share_prices, sectors |-> cyc.all_sectors,
     invoked |-> invoked, result |-> result]

\* A variant of HasRefreshInputs: "or" in place of "and"
HasRefreshInputs_either(share_prices, all_sectors) ==
    Truthy(share_prices) \/ Truthy(all_sectors)

\* main.py:204: if share_prices and all_sectors
HasRefreshInputs(share_prices, all_sectors) ==
    Truthy(share_prices) /\ Truthy(all_sectors)

\* main.py:201-209
Refresh ==
    /\ pc = "refresh"
    /\ IF should_refresh_symbols(datetime_now) /\ ~symbol_refreshed_today
       THEN IF HasRefreshInputs(cyc.share_prices, cyc.all_sectors)
            THEN \E out \in RefOutcomes(cyc.share_prices, cyc.all_sectors) :
                    LET b == build_symbol_reference(ref, cyc.share_prices, cyc.all_sectors,
                                                    now, out)
                    IN  /\ Within(0, OutCost(out))
                        /\ env' = Spend(0, OutCost(out))
                        /\ ref' = b.ref
                        /\ symbol_refreshed_today' =
                              (IF b.exc = "none" THEN TRUE ELSE symbol_refreshed_today)
                        /\ pc' = AfterStep(b.exc, "symbols")
                        /\ rlog' = Append(rlog, RefreshEvent(TRUE,
                                      IF b.exc # "none" THEN "raised" ELSE b.ret))
            ELSE /\ pc' = "symbols"
                 /\ rlog' = Append(rlog, RefreshEvent(FALSE, "missing"))
                 /\ UNCHANGED <<env, ref, symbol_refreshed_today>>
       ELSE /\ pc' = "symbols"
            /\ rlog' = Append(rlog, RefreshEvent(FALSE, "skipped"))
            /\ UNCHANGED <<env, ref, symbol_refreshed_today>>
    /\ UNCHANGED <<now, cyc, files, dirs, csv, snap, wlog, epoch, t0, input, output>>

----------------------------------------------------------------------------
(* Step 10: the company records and the legacy formats *)

\* The symbols of a good tradeSummary or todaySharePrice response
GoodSymbols == <<"LOLC.N0000">>

\* A variant of get_active_symbols: the backup response read with .get without the
\* isinstance test of line 115, so that an absent backup raises AttributeError
get_active_symbols_unguarded(trade, backup) ==
    CASE trade = "good" -> [symbols |-> GoodSymbols, exc |-> "none"]
      [] trade = "odd" -> [symbols |-> <<>>, exc |-> "AttributeError"]
      [] backup = "good" -> [symbols |-> GoodSymbols, exc |-> "none"]
      [] OTHER -> [symbols |-> <<>>, exc |-> "AttributeError"]

\* fetcher.py:96-129.  trade is the tradeSummary response and backup the
\* todaySharePrice response, fetched only when trade is neither an enveloped
\* mapping nor a list.  An odd response is a list whose items have no .get:
\* line 123 raises AttributeError.
get_active_symbols(trade, backup) ==
    CASE trade = "good" -> [symbols |-> GoodSymbols, exc |-> "none"]
      [] trade = "odd" -> [symbols |-> <<>>, exc |-> "AttributeError"]
      [] backup = "good" -> [symbols |-> GoodSymbols, exc |-> "none"]
      [] backup = "odd" -> [symbols |-> <<>>, exc |-> "AttributeError"]
      [] OTHER -> [symbols |-> <<>>, exc |-> "none"]

\* fetcher.py:102, 114: the requests of get_active_symbols
get_active_symbols_posts(posted, trade) ==
    IF trade = "none"                  \* neither an enveloped mapping nor a list
    THEN post(post(posted, "tradeSummary"), "todaySharePrice")
    ELSE post(posted, "tradeSummary")

\* main.py:211-215, 233-234
GetActiveSymbols ==
    /\ pc = "symbols"
    /\ \E trade \in Shapes, backup \in Shapes :
         LET fetched == trade = "none"     \* whether the backup request is made
             r == get_active_symbols(trade, backup)
             a == Cost(trade).absent + (IF fetched THEN Cost(backup).absent ELSE 0)
             f == Cost(trade).faults + (IF fetched THEN Cost(backup).faults ELSE 0)
         IN  /\ fetched \/ backup = "none"
             /\ Within(a, f)
             /\ env' = Spend(a, f)
             /\ cyc' = [cyc EXCEPT !.symbols = r.symbols,
                                   !.posted = get_active_symbols_posts(@, trade)]
             /\ pc' = IF r.exc # "none" THEN AfterStep(r.exc, "end")
                      ELSE IF Len(r.symbols) > 0 THEN "company" ELSE "end"
    /\ UNCHANGED <<now, symbol_refreshed_today, files, dirs, ref, csv, snap, wlog,
                   rlog, epoch, t0, input, output>>

\* The time the company loop takes (0.4 s and one request for each symbol, with no
\* deadline for the loop): less than a tick, as long as the poll interval, or
\* until the market has closed
CompanyTicks == {0, Ticks(POLL_INTERVAL_SECONDS),
                 ((MARKET_CLOSE_HOUR - MARKET_OPEN_HOUR) * 60
                  + MARKET_CLOSE_MINUTE - MARKET_OPEN_MINUTE + 1) * TicksPerMinute}

\* main.py:223-225: the responses that are kept
Kept(info) == Truthy(info.shape)

\* fetcher.py:132-143: the requests of the get_company_info calls for the
\* symbols; an empty symbol is answered without a request
RECURSIVE get_company_info_posts(_, _)
get_company_info_posts(posted, symbols) ==
    IF symbols = <<>> THEN posted
    ELSE get_company_info_posts(IF Head(symbols) = "" THEN posted
                                ELSE post(posted, "companyInfoSummery"),
                                Tail(symbols))

\* main.py:216-229
FetchCompanyInfo ==
    /\ pc = "company"
    /\ \E infos \in [1..Len(cyc.symbols) -> Shapes], d \in CompanyTicks :
         LET a == Cardinality({i \in DOMAIN infos : infos[i] = "none"})
             f == Cardinality({i \in DOMAIN infos : infos[i] = "odd"})
         IN  \/ /\ Within(a, f)
                /\ env' = Spend(a, f)
                /\ now' = now + d
                /\ cyc' = [cyc EXCEPT !.company_data_list =
                               SelectSeq([i \in DOMAIN infos |->
                                            [symbol |-> cyc.symbols[i], shape |-> infos[i]]],
                                         Kept),
                                      !.posted = get_company_info_posts(@, cyc.symbols)]
                /\ pc' = "snapshot"
             \/ /\ a + f = 0 /\ d = 0  \* KeyboardInterrupt during time.sleep(0.4)
                /\ Within(0, 1)
                /\ env' = Spend(0, 1)
                /\ now' = now
                /\ cyc' = cyc
                /\ pc' = "stopped"
    /\ UNCHANGED <<symbol_refreshed_today, files, dirs, ref, csv, snap, wlog, rlog,
                   epoch, t0, input, output>>

\* The shape of the companyData payload: the list of the kept responses
CompanyShape(company_data_list) ==
    IF \E i \in DOMAIN company_data_list : company_data_list[i].shape = "odd"
    THEN "odd" ELSE "good"

NoSnap == [state |-> "absent", timestamp |-> 0, market_summary |-> "none",
           gainers |-> "none", losers |-> "none", sectors |-> "none", companies |-> <<>>]

FileOutcomes == {"ok", "open_fail", "write_fail", "interrupt"}

Row(timestamp, info, st) == [timestamp |-> timestamp, symbol |-> info.symbol, state |-> st]

\* storage.py:271-404.  Odd movers (line 281, 283), an odd market summary
\* (line 293) and an odd company record (line 330) raise AttributeError before
\* anything is written.  The result: the history file, the latest snapshot
\* and the exception that escapes.
save_legacy_formats(c, sn, timestamp, market_summary, company_data_list, gainers, losers, all_sectors, outCsv, outJson) ==
    LET rows == [i \in DOMAIN company_data_list |->
                    Row(timestamp, company_data_list[i], "complete")]
        written == [state |-> "complete", timestamp |-> timestamp,
                    market_summary |-> market_summary, gainers |-> gainers,
                    losers |-> losers, sectors |-> all_sectors,
                    companies |-> [i \in DOMAIN company_data_list |->
                                      company_data_list[i].symbol]]
        c1 == CASE Len(rows) = 0 -> c
                [] outCsv = "ok" -> c \o rows
                [] outCsv = "open_fail" -> c
                [] OTHER -> c \o SubSeq(rows, 1, Len(rows) - 1)
                              \o <<Row(timestamp, company_data_list[Len(rows)], "partial")>>
        csvExc == IF Len(rows) > 0 /\ outCsv = "interrupt" THEN "KeyboardInterrupt"
                  ELSE "none"
    IN  IF \/ gainers = "odd" \/ losers = "odd" \/ market_summary = "odd"
           \/ CompanyShape(company_data_list) = "odd"
        THEN [csv |-> c, snap |-> sn, exc |-> "AttributeError"]
        ELSE IF csvExc # "none"
        THEN [csv |-> c1, snap |-> sn, exc |-> csvExc]
        ELSE CASE outJson = "ok" -> [csv |-> c1, snap |-> written, exc |-> "none"]
               [] outJson = "open_fail" -> [csv |-> c1, snap |-> sn, exc |-> "none"]
               [] outJson = "write_fail" ->
                     [csv |-> c1, snap |-> [written EXCEPT !.state = "partial"],
                      exc |-> "none"]
               [] OTHER ->
                     [csv |-> c1, snap |-> [written EXCEPT !.state = "partial"],
                      exc |-> "KeyboardInterrupt"]

\* storage.py:250-265: the save_endpoint_data calls of save_snapshot, in order
SnapshotSaves ==
    SelectSeq(<< <<"marketSummery", cyc.market_summary>>,
                 <<"companyData", IF Len(cyc.company_data_list) > 0
                                  THEN CompanyShape(cyc.company_data_list) ELSE "none">>,
                 <<"topGainers", cyc.gainers>>,
                 <<"topLooses", cyc.losers>>,
                 <<"allSectors", cyc.all_sectors>> >>,
              LAMBDA e : Truthy(e[2]))

RECURSIVE SaveAll(_, _, _, _, _)
SaveAll(s, saves, timestamp, outs, i) ==
    IF i > Len(saves) THEN s
    ELSE SaveAll(Save(s, saves[i][1], saves[i][2], timestamp, outs[i]),
                 saves, timestamp, outs, i + 1)

\* The environment's choice for one save_snapshot call: the outcome of each of its
\* n save_endpoint_data calls, of the history append (n + 1) and of the snapshot
\* write (n + 2)
SnapshotOutcomes(n) ==
    UNION {[F -> {"open_fail", "write_fail", "interrupt", "mkdir_fail"}] :
              F \in {G \in SUBSET (1..(n + 2)) : Within(0, Cardinality(G))}}

OutcomeAt(k, i) == IF i \in DOMAIN k THEN k[i] ELSE "ok"

\* main.py:231-232 with storage.py:238-269
SaveSnapshot ==
    /\ pc = "snapshot"
    /\ LET saves == SnapshotSaves
           n == Len(saves)
           timestamp == get_timestamp(now)
       IN  \E k \in SnapshotOutcomes(n) :
              LET outs == [i \in 1..n |-> OutcomeAt(k, i)]
                  s == SaveAll(Store, saves, timestamp, outs, 1)
                  l == save_legacy_formats(csv, snap, timestamp, cyc.market_summary,
                                           cyc.company_data_list, cyc.gainers, cyc.losers,
                                           cyc.all_sectors, OutcomeAt(k, n + 1),
                                           OutcomeAt(k, n + 2))
                  legacy == ENABLE_LEGACY_CSV /\ s.exc = "none"
              IN  /\ \A i \in 1..n : outs[i] \in SaveOutcomes(dirs, saves[i][1], saves[i][2])
                  /\ \A i \in {n + 1, n + 2} : OutcomeAt(k, i) \in FileOutcomes
                  \* every fault that is drawn happens
                  /\ \A i \in DOMAIN k :
                        /\ i <= n => Len(s.wlog) >= Len(wlog) + i
                        /\ i > n => /\ legacy
                                    /\ l.exc # "AttributeError"
                                    /\ i = n + 1 => Len(cyc.company_data_list) > 0
                                    /\ i = n + 2 => OutcomeAt(k, n + 1) # "interrupt"
                  /\ env' = Spend(0, Cardinality(DOMAIN k))
                  /\ files' = s.files
                  /\ dirs' = s.dirs
                  /\ wlog' = s.wlog
                  /\ csv' = IF legacy THEN l.csv ELSE csv
                  /\ snap' = IF legacy THEN l.snap ELSE snap
                  /\ pc' = IF s.exc # "none" THEN AfterStep(s.exc, "end")
                           ELSE IF legacy THEN AfterStep(l.exc, "end") ELSE "end"
    /\ UNCHANGED <<now, symbol_refreshed_today, cyc, ref, rlog, epoch, t0, input, output>>

\* A variant of EndCycle: the sleep is the poll interval less the elapsed time,
\* without the max of line 247
EndCycle_unclamped ==
    /\ pc = "end"
    /\ LET elapsed == now - cyc.cycle_start
           sleep_time == Ticks(POLL_INTERVAL_SECONDS) - elapsed
       IN  \/ /\ now' = now + sleep_time
              /\ pc' = "wake"
              /\ env' = env
           \/ /\ Within(0, 1)
              /\ now' = now
              /\ pc' = "stopped"
              /\ env' = Spend(0, 1)
    /\ UNCHANGED <<symbol_refreshed_today, cyc, files, dirs, ref, csv, snap, wlog,
                   rlog, epoch, t0, input, output>>

\* main.py:236-252
EndCycle ==
    /\ pc = "end"
    /\ LET elapsed == now - cyc.cycle_start
           sleep_time == Max(0, Ticks(POLL_INTERVAL_SECONDS) - elapsed)
       IN  \/ /\ now' = now + sleep_time
              /\ pc' = "wake"
              /\ env' = env
           \/ /\ Within(0, 1)          \* KeyboardInterrupt during time.sleep(sleep_time)
              /\ now' = now
              /\ pc' = "stopped"
              /\ env' = Spend(0, 1)
    /\ UNCHANGED <<symbol_refreshed_today, cyc, files, dirs, ref, csv, snap, wlog,
                   rlog, epoch, t0, input, output>>

\* A variant of ErrorBackoff: the handler clears the refreshed-today flag
ErrorBackoff_clears_flag ==
    /\ pc = "backoff"
    /\ symbol_refreshed_today' = FALSE
    /\ \/ /\ now' = now + Ticks(RETRY_DELAY_SECONDS)
          /\ pc' = "wake"
          /\ env' = env
       \/ /\ Within(0, 1)
          /\ now' = now
          /\ pc' = "escaped"
          /\ env' = Spend(0, 1)
    /\ UNCHANGED <<cyc, files, dirs, ref, csv, snap, wlog, rlog, epoch, t0, input, output>>

\* A variant of ErrorBackoff: the handler leaves the loop after its sleep
ErrorBackoff_break ==
    /\ pc = "backoff"
    /\ now' = now + Ticks(RETRY_DELAY_SECONDS)
    /\ pc' = "stopped"
    /\ UNCHANGED <<symbol_refreshed_today, cyc, files, dirs, ref, csv, snap, env, wlog,
                   rlog, epoch, t0, input, output>>

\* main.py:259-262.  The sleep of the handler is outside the try statement: a
\* KeyboardInterrupt delivered during it leaves run_pipeline as an exception.
ErrorBackoff ==
    /\ pc = "backoff"
    /\ \/ /\ now' = now + Ticks(RETRY_DELAY_SECONDS)
          /\ pc' = "wake"
          /\ env' = env
       \/ /\ Within(0, 1)
          /\ now' = now
          /\ pc' = "escaped"
          /\ env' = Spend(0, 1)
    /\ UNCHANGED <<symbol_refreshed_today, cyc, files, dirs, ref, csv, snap, wlog,
                   rlog, epoch, t0, input, output>>

----------------------------------------------------------------------------
(* The specification of run_pipeline *)

\* The instants at which run_pipeline is started
StartTimes == {At(6, 23, 45), At(0, 8, 55) + 1, At(0, 8, 57)}

InitZoned(start, limits, zones) ==
    /\ now \in start
    /\ t0 = now
    /\ pc = "wake"
    /\ symbol_refreshed_today = FALSE
    /\ cyc = NoCycle
    /\ files = NoFiles
    /\ dirs = {}
    /\ ref = NoRef
    /\ csv = <<>>
    /\ snap = NoSnap
    /\ \E z \in zones :
          env = [absent |-> 0, faults |-> 0, limEvents |-> limits[1],
                 limFaults |-> limits[2], limCycles |-> limits[3], zone |-> z]
    /\ wlog = <<>>
    /\ rlog = <<>>
    /\ epoch = 0
    /\ input = <<>>
    /\ output = <<>>

\* The host runs in UTC+5:30
InitAt(start, limits) == InitZoned(start, limits, {0})

Init == InitAt(StartTimes, <<MaxEvents, MaxEvents, MaxCycles>>)

Next ==
    \/ MarketClosed
    \/ CycleStart
    \/ FetchMarketStatus
    \/ FetchMarketSummary
    \/ FetchTradeSummary
    \/ FetchSharePrices
    \/ FetchAspi
    \/ FetchSnp
    \/ FetchSectors
    \/ FetchMovers
    \/ Refresh
    \/ GetActiveSymbols
    \/ FetchCompanyInfo
    \/ SaveSnapshot
    \/ EndCycle
    \/ ErrorBackoff

Spec == Init /\ [][Next]_vars

----------------------------------------------------------------------------
(* One poll cycle in which any number of requests return nothing and nothing
   else goes wrong: the cycle that starts on Monday at 09:00 *)

InitIsolation == InitAt({At(0, MARKET_OPEN_HOUR, MARKET_OPEN_MINUTE)}, <<MaxAbsent, 0, 1>>)

NextIsolation ==
    \/ CycleStart
    \/ FetchMarketStatus
    \/ FetchMarketSummary
    \/ FetchTradeSummary
    \/ FetchSharePrices
    \/ FetchAspi
    \/ FetchSnp
    \/ FetchSectors
    \/ FetchMovers
    \/ Refresh
    \/ GetActiveSymbols
    \/ FetchCompanyInfo
    \/ SaveSnapshot
    \/ EndCycle

IsolationSpec == InitIsolation /\ [][NextIsolation]_vars

(* Consecutive poll cycles from the start of the refresh window in which
   requests return nothing and nothing else goes wrong *)

InitAbsence == InitAt({At(0, MARKET_OPEN_HOUR, MARKET_OPEN_MINUTE)}, <<MaxEvents, 0, MaxCycles>>)

AbsenceSpec == InitAbsence /\ [][NextIsolation]_vars

----------------------------------------------------------------------------
(* save_endpoint_data on its own: a caller that saves any payload of any
   source at any instant of a clock that does not go back *)

StoreEndpoints == {"aspiData", "snpData"}

InitStore == InitAt({0}, <<MaxEvents, MaxEvents, 0>>)

\* storage.py:125-168, called with timestamp = get_timestamp() after d ticks
StoreSave ==
    /\ Len(wlog) < MaxSaves
    /\ \E endpoint_name \in StoreEndpoints, data \in Shapes, d \in {0, TicksPerMinute} :
         \E out \in SaveOutcomes(dirs, endpoint_name, data) :
            LET s == Save(Store, endpoint_name, data, get_timestamp(now + d), out)
            IN  /\ Within(0, OutCost(out))
                /\ env' = Spend(0, OutCost(out))
                /\ now' = now + d
                /\ files' = s.files
                /\ dirs' = s.dirs
                /\ wlog' = s.wlog
    /\ UNCHANGED <<pc, symbol_refreshed_today, cyc, ref, csv, snap,
                   rlog, epoch, t0, input, output>>

NextStore == StoreSave

StoreSpec == InitStore /\ [][NextStore]_vars

----------------------------------------------------------------------------
(* One poll cycle of a host in UTC+5:30 (Asia/Colombo), in UTC or in UTC-5:00
   (New York, winter), started on Monday at 09:00 or on Saturday at 00:30, both
   in UTC+5:30 *)

\* The host's zone, in minutes ahead of UTC+5:30
HostZones == {0, -330, -630}

InitZone ==
    InitZoned({At(0, MARKET_OPEN_HOUR, MARKET_OPEN_MINUTE), At(5, 0, 30)},
              <<MaxEvents, MaxEvents, 1>>, HostZones)

ZoneSpec == InitZone /\ [][Next]_vars

----------------------------------------------------------------------------
(* One poll cycle, reached through a market-closed sleep, in which one more
   thing may go wrong than in Spec: an exception that sends the scheduler to
   the error backoff and an interrupt after it *)

InitBackoff == InitAt({At(0, 8, 57)}, <<MaxEvents + 1, MaxEvents + 1, 1>>)

BackoffSpec == InitBackoff /\ [][Next]_vars

(* The runs of BackoffSpec under the assumption that
   time.sleep(RETRY_DELAY_SECONDS) returns or is interrupted: the handler of
   main.py:259-262 does not stay in its sleep for ever *)
InitRetry == InitAt({At(0, 8, 57)}, <<MaxEvents + 1, MaxEvents + 1, 1>>)

RetrySpec == InitRetry /\ [][Next]_vars /\ WF_vars(ErrorBackoff)

----------------------------------------------------------------------------
(* Properties: the time-series store *)

\* Claim C1: no endpoint artifact written during one poll cycle is overwritten,
\* truncated or deleted by a later poll cycle.  Nothing deletes an artifact, so
\* the statement is: two writes that open the same artifact path belong to the
\* same poll cycle.
C1_NoOverwriteByLaterCycle ==
    \A i, j \in DOMAIN wlog :
        (/\ i < j
         /\ wlog[i].opened
         /\ wlog[j].opened
         /\ ArtifactKey(wlog[i].endpoint, wlog[i].ts) = ArtifactKey(wlog[j].endpoint, wlog[j].ts))
        => wlog[i].cycle = wlog[j].cycle

\* Claim C2: within one poll cycle a source is written to the time-series store
\* exactly once: after a source has been saved in a cycle, no later step of the
\* same cycle writes that source again, onto the same artifact or as a second one.
C2_WrittenOncePerCycle ==
    \A i, j \in DOMAIN wlog :
        (/\ i < j
         /\ wlog[i].cycle = wlog[j].cycle
         /\ wlog[i].endpoint = wlog[j].endpoint
         /\ wlog[i].ret = "path")
        => ~wlog[j].opened

\* The save_endpoint_data calls of the history log that carry a payload for
\* source endpoint_name
SavesOf(log, endpoint_name) ==
    {i \in DOMAIN log : log[i].endpoint = endpoint_name /\ log[i].data # "none"}

\* Every save of the source so far has succeeded, and no two of them fall into
\* the same minute
DistinctSuccessfulSaves(log, endpoint_name) ==
    /\ \A i \in SavesOf(log, endpoint_name) : log[i].ret = "path"
    /\ \A i, j \in SavesOf(log, endpoint_name) :
          i # j => log[i].ts \div TicksPerMinute # log[j].ts \div TicksPerMinute

ArtifactsOf(f, endpoint_name) == {k \in DOMAIN f : k[1] = endpoint_name}

\* Claim C3: the append-only law of save_endpoint_data.  A successful save that
\* makes the saves of its source N + 1 successful saves with pairwise distinct
\* minutes leaves exactly N + 1 artifacts of that source, and leaves every
\* artifact that existed before it, of this and of every other source, as it was.
C3_AppendOnlyLaw ==
    [][wlog' # wlog =>
         LET ev == wlog'[Len(wlog')]
         IN  (ev.ret = "path" /\ DistinctSuccessfulSaves(wlog', ev.endpoint))
             => /\ Cardinality(ArtifactsOf(files', ev.endpoint))
                      = Cardinality(SavesOf(wlog', ev.endpoint))
                /\ \A k \in DOMAIN files : k \in DOMAIN files' /\ files'[k] = files[k]]_vars

\* C3 happens: a source has two successful saves in distinct minutes and no other
\* save, the second one made while an artifact of the other source existed
C3_Witness ==
    \E e \in StoreEndpoints, n \in DOMAIN wlog :
        /\ n = Len(wlog)
        /\ wlog[n].endpoint = e
        /\ wlog[n].ret = "path"
        /\ DistinctSuccessfulSaves(wlog, e)
        /\ Cardinality(SavesOf(wlog, e)) >= 2
        /\ \E i \in 1..(n - 1) : wlog[i].endpoint # e /\ wlog[i].ret = "path"

\* Claim C4: an absent payload creates nothing; consequently, after any poll
\* cycle, a source whose fetch returned absent has no artifact keyed by that
\* cycle's timestamp.
C4_AbsentLeavesNoArtifact ==
    /\ \A i \in DOMAIN wlog : wlog[i].data = "none" => ~wlog[i].opened
    /\ pc = "end" =>
          \A e \in cyc.absent : ArtifactKey(e, cyc.timestamp) \notin DOMAIN files

\* Claim C5: at every reachable state each artifact path is absent or holds one
\* complete artifact: no partially written artifact is ever present.
C5_NoPartialArtifact ==
    \A k \in DOMAIN files : files[k].state = "complete"

----------------------------------------------------------------------------
(* Properties: the daily refresh of the reference table *)

\* Claim C6: between two consecutive market-closed wake-ups
\* build_symbol_reference is invoked at most once.
C6_AtMostOneRebuildPerDay ==
    \A i, j \in DOMAIN rlog :
        (i < j /\ rlog[i].invoked /\ rlog[j].invoked) => rlog[i].epoch # rlog[j].epoch

\* Step 9 of the cycle of history entry e ran inside the refresh window with a
\* truthy price list and a truthy sector list
WindowWithInputs(e) == e.window /\ Truthy(e.prices) /\ Truthy(e.sectors)

\* Claim C7: of two consecutive poll cycles inside the refresh window of one
\* trading day, both with the price list and the sector list, the first rebuilds
\* the reference table and the second skips it; and after a market-closed wake-up
\* has reset the flag, the next such cycle rebuilds the table.  A rebuild is an
\* invocation of build_symbol_reference, whatever becomes of its write.
C7_RebuiltThenSkipped ==
    /\ \A i \in DOMAIN rlog :
          (/\ i + 1 \in DOMAIN rlog
           /\ rlog[i + 1].cycle = rlog[i].cycle + 1
           /\ rlog[i + 1].epoch = rlog[i].epoch
           /\ ~rlog[i].flag
           /\ WindowWithInputs(rlog[i])
           /\ WindowWithInputs(rlog[i + 1]))
          => rlog[i].invoked /\ rlog[i + 1].result = "skipped"
    /\ \A j \in DOMAIN rlog :
          (/\ rlog[j].epoch > 0
           /\ WindowWithInputs(rlog[j])
           /\ \A i \in 1..(j - 1) :
                 rlog[i].epoch = rlog[j].epoch => ~WindowWithInputs(rlog[i]))
          => rlog[j].invoked

\* Claim C8: in a poll cycle inside the refresh window, with the flag unset, whose
\* price list is absent and whose sector list was fetched, step 9 does not invoke
\* build_symbol_reference and leaves the flag unset and the table as it was; and
\* when the next cycle is inside the window of the same day and has both inputs,
\* its step 9 invokes build_symbol_reference.
C8_MissingPricesDeferRefresh ==
    [][(pc = "refresh" /\ should_refresh_symbols(now) /\ ~symbol_refreshed_today) =>
         /\ (cyc.share_prices = "none" /\ Truthy(cyc.all_sectors)) =>
               /\ ~rlog'[Len(rlog')].invoked
               /\ ~symbol_refreshed_today'
               /\ ref' = ref
               /\ pc' = "symbols"
         /\ (/\ Truthy(cyc.share_prices)
             /\ Truthy(cyc.all_sectors)
             /\ rlog # <<>>
             /\ rlog[Len(rlog)].cycle + 1 = cyc.no
             /\ rlog[Len(rlog)].epoch = epoch
             /\ rlog[Len(rlog)].window
             /\ rlog[Len(rlog)].prices = "none") =>
               rlog'[Len(rlog')].invoked]_vars

\* C8 happens: a cycle inside the window without the price list and with the
\* sector list did not refresh, and the next cycle, inside the same window with
\* both lists, rebuilt the table and set the flag
C8_Witness ==
    \E i \in DOMAIN rlog :
        /\ i + 1 = Len(rlog)
        /\ rlog[i].window
        /\ ~rlog[i].flag
        /\ rlog[i].prices = "none"
        /\ Truthy(rlog[i].sectors)
        /\ rlog[i].result = "missing"
        /\ rlog[i + 1].cycle = rlog[i].cycle + 1
        /\ rlog[i + 1].epoch = rlog[i].epoch
        /\ ~rlog[i + 1].flag
        /\ rlog[i + 1].result = "reference"
        /\ symbol_refreshed_today
        /\ ref.state = "complete"

\* Claim C9: on every trading day that run_pipeline has followed from before the
\* open, uninterrupted and with every fetch successful, the reference table has
\* been rebuilt exactly once when the market has closed.
C9_RebuiltOncePerTradingDay ==
    (/\ pc = "wake"
     /\ Weekday(now) < 5
     /\ TickOfDay(now) > (MARKET_CLOSE_HOUR * 60 + MARKET_CLOSE_MINUTE) * TicksPerMinute
     /\ t0 < At(DayOf(now), MARKET_OPEN_HOUR, MARKET_OPEN_MINUTE)
     /\ env.absent = 0
     /\ env.faults = 0)
    => Cardinality({i \in DOMAIN rlog :
                       rlog[i].day = DayOf(now) /\ rlog[i].result = "reference"}) = 1

----------------------------------------------------------------------------
(* Properties: failure isolation *)

\* The sources of steps 1 to 8 with the step that fetches each, and the steps of
\* a cycle in their order (main.py:106-252)
DataSources == {"marketStatus", "marketSummery", "tradeSummary", "todaySharePrice",
                "aspiData", "snpData", "allSectors", "topGainers", "topLooses"}

StepOfSource(endpoint_name) ==
    CASE endpoint_name = "marketStatus" -> "status"
      [] endpoint_name = "marketSummery" -> "summary"
      [] endpoint_name = "tradeSummary" -> "trade"
      [] endpoint_name = "todaySharePrice" -> "prices"
      [] endpoint_name = "aspiData" -> "aspi"
      [] endpoint_name = "snpData" -> "snp"
      [] endpoint_name = "allSectors" -> "sectors"
      [] OTHER -> "movers"

Steps == <<"status", "summary", "trade", "prices", "aspi", "snp", "sectors", "movers",
           "refresh", "symbols", "company", "snapshot", "end">>

StepNo(p) == CHOOSE i \in DOMAIN Steps : Steps[i] = p

InSeq(x, s) == \E i \in DOMAIN s : s[i] = x

\* Claim C10: per-source failure isolation.  As long as nothing but absent fetch
\* results has happened, the scheduler is never in the error backoff and is never
\* stopped, and every source whose step the cycle has passed either returned
\* absent, and then nothing of it was written by this cycle, or is listed as
\* fetched and has a complete artifact under the cycle's timestamp.
C10_FailureIsolation ==
    env.faults = 0 =>
        /\ pc \notin {"backoff", "stopped", "escaped"}
        /\ InSeq(pc, Steps) =>
              \A e \in DataSources :
                  StepNo(StepOfSource(e)) < StepNo(pc) =>
                      IF e \in cyc.absent
                      THEN /\ ~InSeq(e, cyc.endpoints_fetched)
                           /\ \A i \in DOMAIN wlog :
                                 wlog[i].cycle = cyc.no => wlog[i].endpoint # e
                      ELSE /\ InSeq(e, cyc.endpoints_fetched)
                           /\ ArtifactKey(e, cyc.timestamp) \in DOMAIN files
                           /\ files[ArtifactKey(e, cyc.timestamp)].state = "complete"

\* C10 happens: a cycle has reached its end-of-cycle sleep although the first
\* source, the price list and one mover list returned absent, with the sources
\* fetched after them persisted and the legacy snapshot written
C10_Witness ==
    /\ pc = "end"
    /\ env.faults = 0
    /\ {"marketStatus", "todaySharePrice", "topGainers"} \subseteq cyc.absent
    /\ InSeq("allSectors", cyc.endpoints_fetched)
    /\ InSeq("topLooses", cyc.endpoints_fetched)
    /\ ArtifactKey("topLooses", cyc.timestamp) \in DOMAIN files
    /\ snap.state = "complete"

----------------------------------------------------------------------------
(* Properties: errors and interrupts *)

\* The outcomes of a save that are I/O errors
IOFailures == {"mkdir_fail", "open_fail", "write_fail"}

\* Claim C11: a save_endpoint_data call that meets an I/O error, while creating
\* the source directory or while writing the file, returns None and lets no
\* exception escape, so that the cycle goes on with the next source instead of
\* entering the error backoff.
C11_SaveFailureIsolated ==
    \A i \in DOMAIN wlog :
        wlog[i].out \in IOFailures => wlog[i].ret = "None" /\ wlog[i].exc = "none"

\* Claim C12: the loop ends only through its interrupt handler: an interrupt
\* delivered during the end-of-cycle sleep, the market-closed sleep or the
\* error-backoff sleep stops the loop on the clean-exit path, and no exception
\* escapes run_pipeline.
C12_InterruptExitsCleanly ==
    pc # "escaped"

\* Claim C13: a failure other than an interrupt that leaves the body of a poll
\* cycle never ends the loop.  A step that raises (step 1 on an odd status, a
\* save on a directory error) takes the scheduler to the error backoff; the
\* backoff, unless an interrupt arrives during its sleep, sleeps the fixed retry
\* delay, changes nothing else and returns to the evaluation of the market
\* hours; and it always leaves the backoff eventually.
C13_BackoffResumes ==
    /\ [][(\/ cyc.status_data # "odd" /\ cyc'.status_data = "odd"
           \/ Len(wlog') > Len(wlog) /\ wlog'[Len(wlog')].exc = "OSError")
          => pc' = "backoff"]_vars
    /\ [][(pc = "backoff" /\ pc' # "escaped") =>
             /\ pc' = "wake"
             /\ now' = now + Ticks(RETRY_DELAY_SECONDS)
             /\ UNCHANGED <<symbol_refreshed_today, files, dirs, ref, csv, snap>>]_vars
    /\ (pc = "backoff" ~> (pc = "wake" \/ pc = "escaped"))

\* C13 happens: step 1 of a cycle raised on an odd status, the scheduler slept
\* the retry delay and is back at the evaluation of the market hours, with no
\* artifact written
C13_Witness ==
    /\ pc = "wake"
    /\ cyc.status_data = "odd"
    /\ now = cyc.cycle_start + Ticks(RETRY_DELAY_SECONDS)
    /\ wlog = <<>>

----------------------------------------------------------------------------
(* The field resolution of _save_legacy_formats (storage.py:285-324), applied
   on its own.  A market-summary payload is a mapping, given by what it holds
   at each key path: "absent" where the key is missing and otherwise a JSON
   value: "null", a number ("0", "1", "2"), a non-empty list ("list") or a
   mapping ("map"), whose keys are the paths that extend the path. *)

MaxKeys == 3   \* keys present in a market-summary payload, at all depths together

IndexKeys == {"aspi", "snp"}
ScalarKeys == {"asi", "spp", "spt", "tradeVolume", "marketTurnover", "turnover"}

\* The key paths that storage.py:293-321 reads in one mapping
LevelPaths ==
    {<<k>> : k \in IndexKeys \cup ScalarKeys} \cup {<<k, "value">> : k \in IndexKeys}

\* The key paths read in a market-summary payload
Paths ==
    LevelPaths \cup {<<"reqMarketSummery">>}
               \cup {<<"reqMarketSummery">> \o q : q \in LevelPaths}

Parent(path) == SubSeq(path, 1, Len(path) - 1)

\* The values tried at a path: at a path the code reads as a mapping, values that
\* are and that are not mappings; elsewhere null, zero and two numbers
ValuesAt(path) ==
    IF path = <<"reqMarketSummery">> \/ path[Len(path)] \in IndexKeys
    THEN {"null", "1", "list", "map"}
    ELSE {"null", "0", "1", "2"}

EmptyPayload == [path \in Paths |-> "absent"]

\* The payloads that add to payload q one key among paths
WithOneMoreKey(q, paths) ==
    {[q EXCEPT ![x[1]] = x[2]] :
        x \in {y \in paths \X {"null", "0", "1", "2", "list", "map"} :
                  /\ q[y[1]] = "absent"
                  /\ Len(y[1]) = 1 \/ q[Parent(y[1])] = "map"
                  /\ y[2] \in ValuesAt(y[1])}}

\* The payloads with at most n keys, all of them among paths
RECURSIVE Payloads(_, _)
Payloads(paths, n) ==
    IF n = 0 THEN {EmptyPayload}
    ELSE LET P == Payloads(paths, n - 1)
         IN  P \cup UNION {WithOneMoreKey(q, paths) : q \in P}

\* Python's truth value of what a lookup returns
IsTruthy(v) == v \notin {"None", "0", "0.0"}

\* The keys of the mapping at path m of payload p; a path outside the payload
\* stands for the empty mapping
Lookup(p, path) == IF path \in Paths THEN p[path] ELSE "absent"

\* m.get(key): None for a missing key, and for a key that holds null
Get(p, m, key) ==
    IF Lookup(p, m \o <<key>>) \in {"absent", "null"} THEN "None"
    ELSE Lookup(p, m \o <<key>>)

\* m.get(key, {}).get('value') (storage.py:298, 300, 307, 310): the default {}
\* replaces a missing key only, and None, a number and a list have no get
GetValue(p, m, key) ==
    CASE Lookup(p, m \o <<key>>) = "absent" -> "None"
      [] Lookup(p, m \o <<key>>) = "map" -> Get(p, m \o <<key>>, "value")
      [] OTHER -> "AttributeError"

\* a or b or ... (storage.py:297-321): the first truthy operand, or else the last
\* one; an operand that raises ends the evaluation, and the operands after the
\* one that is returned are not evaluated
RECURSIVE Or(_)
Or(operands) ==
    IF Len(operands) = 1 \/ operands[1] = "AttributeError" \/ IsTruthy(operands[1])
    THEN operands[1]
    ELSE Or(Tail(operands))

\* storage.py:294
ReqMarketSummery(market_summary) ==
    IF market_summary[<<"reqMarketSummery">>] = "map" THEN <<"reqMarketSummery">>
    ELSE <<"{}">>

\* storage.py:297-303
aspi_value(market_summary) ==
    LET ms == ReqMarketSummery(market_summary)
    IN  Or(<<GetValue(market_summary, <<>>, "aspi"), Get(market_summary, <<>>, "asi"),
             GetValue(market_summary, ms, "aspi"), Get(market_summary, ms, "asi"),
             "0.0">>)

\* storage.py:306-314
snp_value(market_summary) ==
    LET ms == ReqMarketSummery(market_summary)
    IN  Or(<<GetValue(market_summary, <<>>, "snp"), Get(market_summary, <<>>, "spp"),
             Get(market_summary, <<>>, "spt"), GetValue(market_summary, ms, "snp"),
             Get(market_summary, ms, "spp"), Get(market_summary, ms, "spt"), "0.0">>)

\* storage.py:317-325
market_turnover(market_summary) ==
    LET ms == ReqMarketSummery(market_summary)
    IN  Or(<<Get(market_summary, <<>>, "tradeVolume"),
             Get(market_summary, <<>>, "marketTurnover"),
             Get(market_summary, <<>>, "turnover"), Get(market_summary, ms, "tradeVolume"),
             Get(market_summary, ms, "marketTurnover"), Get(market_summary, ms, "turnover"),
             "0.0">>)

NoValues == [exc |-> "pending", aspi_value |-> "0.0", snp_value |-> "0.0",
             market_turnover |-> "0.0"]

\* storage.py:287-325: the three values are initialised to 0.0 and, for a
\* payload that is not empty, resolved one after the other; an exception leaves
\* the function with the values after it still at 0.0
market_values(market_summary) ==
    LET a == aspi_value(market_summary)
        s == snp_value(market_summary)
        t == market_turnover(market_summary)
    IN  CASE market_summary = EmptyPayload -> [NoValues EXCEPT !.exc = "none"]
          [] a = "AttributeError" -> [NoValues EXCEPT !.exc = "AttributeError"]
          [] s = "AttributeError" ->
                [NoValues EXCEPT !.exc = "AttributeError", !.aspi_value = a]
          [] OTHER -> [exc |-> "none", aspi_value |-> a, snp_value |-> s,
                       market_turnover |-> t]

\* The state of the pipeline while a function is applied on its own, the
\* reference file being file
IdleWith(file) ==
    /\ now = 0
    /\ t0 = 0
    /\ pc = "stopped"
    /\ symbol_refreshed_today = FALSE
    /\ cyc = NoCycle
    /\ files = NoFiles
    /\ dirs = {}
    /\ ref = file
    /\ csv = <<>>
    /\ snap = NoSnap
    /\ env = [absent |-> 0, faults |-> 0, limEvents |-> 0, limFaults |-> 0, limCycles |-> 0,
              zone |-> 0]
    /\ wlog = <<>>
    /\ rlog = <<>>
    /\ epoch = 0

Idle == IdleWith(NoRef)

InitResolve ==
    /\ Idle
    /\ input \in Payloads(Paths, MaxKeys)
    /\ output = NoValues

\* storage.py:287-325 for the payload market_summary = input
ResolveMarketValues ==
    /\ output.exc = "pending"
    /\ output' = market_values(input)
    /\ UNCHANGED <<now, pc, symbol_refreshed_today, cyc, files, dirs, ref, csv, snap, env,
                   wlog, rlog, epoch, t0, input>>

NextResolve == ResolveMarketValues

ResolveSpec == InitResolve /\ [][NextResolve]_vars

\* The key paths that the resolution of aspi_value reads (storage.py:294-303)
AspiPaths ==
    {<<"aspi">>, <<"aspi", "value">>, <<"asi">>, <<"reqMarketSummery">>,
     <<"reqMarketSummery", "aspi">>, <<"reqMarketSummery", "aspi", "value">>,
     <<"reqMarketSummery", "asi">>}

(* The resolution applied to every payload whose keys are among those that
   aspi_value reads *)
InitAspi ==
    /\ Idle
    /\ input \in Payloads(AspiPaths, Cardinality(AspiPaths))
    /\ output = NoValues

AspiSpec == InitAspi /\ [][NextResolve]_vars

----------------------------------------------------------------------------
(* build_symbol_reference (storage.py:170-236) and get_active_symbols
   (fetcher.py:96-129) applied on their own to JSON responses.  A JSON value is
   null, a number, a string or a mapping (each other than empty), or a list of
   items; an item is a mapping with its 'symbol' and 'name' ("" where the key is
   missing or holds nothing) or a string.  A response is a JSON value, or a
   mapping that holds a JSON value under the wrapper key of its endpoint; the
   response that is a mapping itself is a mapping without the wrapper key. *)

MaxItems == 2   \* items of a list
MaxCalls == 2   \* calls of a function on the same arguments

Symbols == {"", "ABC.X0000", "LOLC.N0000"}
CompanyNames == {"n1", "n2"}

\* The 'sector' of the price record that carries a name: the records named n1
\* have one, the others have no such key (.get gives None)
SectorWith(name) == IF name = "n1" THEN "s1" ELSE "None"

Item(kind, symbol, name) ==
    [kind |-> kind, symbol |-> symbol, name |-> name, sector |-> SectorWith(name)]

\* The items of the todaySharePrice and tradeSummary lists
PriceItems == {Item("str", "", "")} \cup {Item("map", s, n) : s \in Symbols, n \in CompanyNames}

\* The items of the allSectors list: none of their keys reaches the result
SectorItems == {Item("str", "", ""), Item("map", "", "")}

ListsOf(items) == UNION {[1..k -> items] : k \in 0..MaxItems}

Value(kind, items) == [kind |-> kind, items |-> items]

EmptyList == Value("list", <<>>)

ValuesOf(items) ==
    {Value(k, <<>>) : k \in {"null", "num", "str", "map"}}
        \cup {Value("list", s) : s \in ListsOf(items)}

Responses(items) == {[wrapped |-> w, value |-> v] : w \in BOOLEAN, v \in ValuesOf(items)}

\* Python's truth value of a JSON value that is not a mapping with a wrapper key
Falsy(value) == value.kind = "null" \/ value = EmptyList

\* storage.py:185-191
price_items(price_data) ==
    CASE price_data.wrapped -> price_data.value        \* .get('reqTodaySharePrice', [])
      [] price_data.value.kind = "map" -> EmptyList    \* the default of .get
      [] price_data.value.kind = "list" -> price_data.value
      [] OTHER -> EmptyList                            \* with a warning

\* storage.py:206-212; when sectors_data is falsy the loop of line 215 is not
\* reached, which is the same as an empty list
sector_list(sectors_data) ==
    CASE ~sectors_data.wrapped /\ Falsy(sectors_data.value) -> EmptyList
      [] sectors_data.wrapped -> sectors_data.value    \* sectors_data['reqAllSectors']
      [] sectors_data.value.kind = "list" -> sectors_data.value
      [] OTHER -> EmptyList

\* fetcher.py:106-116: what the backup response gives
backup_items(data) ==
    CASE data.value.kind = "list" /\ ~data.wrapped -> data.value
      [] data.wrapped -> data.value                    \* .get('reqTodaySharePrice', [])
      [] data.value.kind = "map" -> EmptyList          \* the default of .get
      [] OTHER -> EmptyList

\* A variant of trade_items: no backup request, an unrecognized tradeSummary
\* response gives no records
trade_items_nobackup(data, backup) ==
    CASE data.wrapped -> data.value
      [] data.value.kind = "list" -> data.value
      [] OTHER -> EmptyList

\* fetcher.py:106-116
trade_items(data, backup) ==
    CASE data.wrapped -> data.value                    \* data['reqTradeSummery']
      [] data.value.kind = "list" -> data.value
      [] OTHER -> backup_items(backup)

\* for item in items: item.get(..) (storage.py:193-194, 215-216, fetcher.py:122-123):
\* the exception of the loop.  None and a number are not iterable; a string
\* gives its characters and a mapping its keys, which have no get.
LoopError(items) ==
    CASE items.kind \in {"null", "num"} -> "TypeError"
      [] items.kind \in {"str", "map"} -> "AttributeError"
      [] \E i \in DOMAIN items.items : items.items[i].kind # "map" -> "AttributeError"
      [] OTHER -> "none"

\* storage.py:198-202: the entry of a price record
Entry(item) ==
    [symbol |-> item.symbol, company_name |-> item.name, sector |-> item.sector,
     sector_index |-> "None"]

\* A variant of Assign: an entry for every record with a symbol, also when the
\* symbol has one already
Assign_again(reference, item) ==
    IF item.symbol = "" THEN reference ELSE Append(reference, Entry(item))

\* storage.py:197-203: reference[symbol] = {...}; a dict keeps the place of a
\* key that is assigned again
Assign(reference, item) ==
    IF item.symbol = "" THEN reference
    ELSE IF \E i \in DOMAIN reference : reference[i].symbol = item.symbol
    THEN [i \in DOMAIN reference |->
             IF reference[i].symbol = item.symbol THEN Entry(item) ELSE reference[i]]
    ELSE Append(reference, Entry(item))

\* storage.py:181, 193-203
RECURSIVE ReferenceOf(_, _)
ReferenceOf(reference, items) ==
    IF items = <<>> THEN reference
    ELSE ReferenceOf(Assign(reference, Head(items)), Tail(items))

NoReferenceFile == [state |-> "absent", generated_at |-> 0, symbol_count |-> 0, symbols |-> <<>>]

ReferenceFile(st, t, reference) ==
    [state |-> st, generated_at |-> get_timestamp(t), symbol_count |-> Len(reference),
     symbols |-> reference]

\* A variant of symbol_reference: the entries are added to those of the
\* reference file in place of a fresh mapping
symbol_reference_appending(r, price_data, sectors_data, t, out) ==
    LET items == price_items(price_data)
        sectors == sector_list(sectors_data)
        reference == r.symbols \o ReferenceOf(<<>>, items.items)
        call == [file |-> r, ret |-> "None", reference |-> <<>>, exc |-> "none",
                 items |-> items, sector_list |-> sectors]
    IN  CASE LoopError(items) # "none" ->
                [call EXCEPT !.exc = LoopError(items), !.sector_list = Value("unset", <<>>)]
          [] LoopError(sectors) # "none" -> [call EXCEPT !.exc = LoopError(sectors)]
          [] out = "open_fail" -> call
          [] out = "write_fail" ->
                [call EXCEPT !.file = ReferenceFile("partial", t, reference)]
          [] OTHER ->
                [call EXCEPT !.file = ReferenceFile("complete", t, reference),
                             !.ret = "reference", !.reference = reference]

\* storage.py:170-236 on JSON responses.  r is the reference file before the
\* call and out what the file system does; the result: the file, the value
\* returned, the exception that escapes, and the lists the two loops ran over.
symbol_reference(r, price_data, sectors_data, t, out) ==
    LET items == price_items(price_data)
        sectors == sector_list(sectors_data)
        reference == ReferenceOf(<<>>, items.items)
        call == [file |-> r, ret |-> "None", reference |-> <<>>, exc |-> "none",
                 items |-> items, sector_list |-> sectors]
    IN  CASE LoopError(items) # "none" ->
                [call EXCEPT !.exc = LoopError(items), !.sector_list = Value("unset", <<>>)]
          [] LoopError(sectors) # "none" -> [call EXCEPT !.exc = LoopError(sectors)]
          [] out = "open_fail" -> call
          [] out = "write_fail" ->
                [call EXCEPT !.file = ReferenceFile("partial", t, reference)]
          [] OTHER ->
                [call EXCEPT !.file = ReferenceFile("complete", t, reference),
                             !.ret = "reference", !.reference = reference]

\* sorted(list(symbols)) over the symbols of the model
SymbolOrder == <<"ABC.X0000", "LOLC.N0000">>

\* fetcher.py:96-129 on JSON responses: the value returned (None when an
\* exception escapes), the exception and the list the loop ran over
active_symbols(data, backup) ==
    LET items == trade_items(data, backup)
        symbols == {items.items[i].symbol : i \in DOMAIN items.items} \ {""}
        call == [ret |-> <<>>, exc |-> "none", items |-> items]
    IN  CASE Falsy(items) -> call                      \* if not items: return []
          [] LoopError(items) # "none" -> [call EXCEPT !.exc = LoopError(items)]
          [] OTHER -> [call EXCEPT !.ret = SelectSeq(SymbolOrder, LAMBDA s : s \in symbols)]

\* The arguments: of build_symbol_reference the two snapshots, and of
\* get_active_symbols the tradeSummary response and, when it is requested
\* (fetcher.py:111-116), the todaySharePrice response; calls is the number of
\* times the function is called on them
NotRequested == [wrapped |-> FALSE, value |-> Value("null", <<>>)]

BuildArguments(calls) ==
    {[fn |-> "build_symbol_reference", a |-> p, b |-> s, calls |-> calls] :
        p \in Responses(PriceItems), s \in Responses(SectorItems)}

\* fetcher.py:106-109: whether the backup is requested
BackupRequested(data) == ~data.wrapped /\ data.value.kind # "list"

SymbolArguments(calls) ==
    {[fn |-> "get_active_symbols", a |-> d, b |-> NotRequested, calls |-> calls] :
        d \in {r \in Responses(PriceItems) : ~BackupRequested(r)}}
    \cup {[fn |-> "get_active_symbols", a |-> d, b |-> k, calls |-> calls] :
             d \in {r \in Responses(PriceItems) : BackupRequested(r)},
             k \in Responses(PriceItems)}

\* A reference file that earlier calls, on other snapshots, have left
OlderFile == ReferenceFile("complete", 0, <<Entry(Item("map", "OLD.N0000", "n1"))>>)

InitNormalize ==
    /\ input \in BuildArguments(1) \cup SymbolArguments(1)
    /\ \E file \in (IF input.fn = "build_symbol_reference"
                     THEN {NoReferenceFile, OlderFile} ELSE {NoReferenceFile}) :
          IdleWith(file)
    /\ output = <<>>

\* storage.py:170-236, called with the arguments of input on the reference file
\* ref, d ticks after the call before it
CallBuildSymbolReference ==
    /\ input.fn = "build_symbol_reference"
    /\ Len(output) < input.calls
    /\ \E d \in {0, 1}, out \in {"ok", "open_fail", "write_fail"} :
         LET call == symbol_reference(ref, input.a, input.b, now + d, out)
         IN  /\ call.exc # "none" => out = "ok"
             /\ now' = now + d
             /\ ref' = call.file
             /\ output' = Append(output, call)
    /\ UNCHANGED <<pc, symbol_refreshed_today, cyc, files, dirs, csv, snap, env,
                   wlog, rlog, epoch, t0, input>>

\* fetcher.py:96-129, with the responses of input
CallGetActiveSymbols ==
    /\ input.fn = "get_active_symbols"
    /\ Len(output) < input.calls
    /\ output' = Append(output, active_symbols(input.a, input.b))
    /\ UNCHANGED <<now, pc, symbol_refreshed_today, cyc, files, dirs, ref, csv, snap, env,
                   wlog, rlog, epoch, t0, input>>

NextNormalize == CallBuildSymbolReference \/ CallGetActiveSymbols

NormalizeSpec == InitNormalize /\ [][NextNormalize]_vars

(* build_symbol_reference called MaxCalls times on the same snapshots *)
InitRebuild ==
    /\ input \in BuildArguments(MaxCalls)
    /\ \E file \in {NoReferenceFile, OlderFile} : IdleWith(file)
    /\ output = <<>>

NextRebuild == CallBuildSymbolReference

RebuildSpec == InitRebuild /\ [][NextRebuild]_vars

(* build_symbol_reference called twice on one price snapshot, with a sector
   snapshot of its own for each call, and a file system that does not fail *)
SectorArguments ==
    {[fn |-> "build_symbol_reference", a |-> p, b |-> <<s1, s2>>, calls |-> 2] :
        p \in Responses(PriceItems), s1 \in Responses(SectorItems),
        s2 \in Responses(SectorItems)}

InitSectors ==
    /\ input \in SectorArguments
    /\ IdleWith(NoReferenceFile)
    /\ output = <<>>

\* storage.py:170-236, called with the price snapshot of input and the sector
\* snapshot of this call
CallWithSectors ==
    /\ Len(output) < input.calls
    /\ LET call == symbol_reference(ref, input.a, input.b[Len(output) + 1], now, "ok")
       IN  /\ ref' = call.file
           /\ output' = Append(output, call)
    /\ UNCHANGED <<now, pc, symbol_refreshed_today, cyc, files, dirs, csv, snap, env,
                   wlog, rlog, epoch, t0, input>>

NextSectors == CallWithSectors

SectorSpec == InitSectors /\ [][NextSectors]_vars

----------------------------------------------------------------------------
(* Properties: field resolution *)

\* The values a payload holds
ValuesIn(p) == {p[path] : path \in Paths} \ {"absent"}

\* Claim C14: field resolution never raises.  For every market-summary payload,
\* whatever is missing in it and whatever a key holds in place of a mapping, the
\* resolution of aspi_value, snp_value and market_turnover completes without an
\* exception, and each of the three is a value of the payload or the default 0.0.
C14_ResolutionNeverRaises ==
    output.exc # "pending" =>
        /\ output.exc = "none"
        /\ \A v \in {output.aspi_value, output.snp_value, output.market_turnover} :
              v \in ValuesIn(input) \cup {"0.0"}

\* The traversal of a key path succeeds with a truthy value: every mapping on the
\* way is there and the path holds a value other than null and zero
Resolves(p, path) ==
    /\ \A n \in 1..(Len(path) - 1) : p[SubSeq(path, 1, n)] = "map"
    /\ p[path] \notin {"absent", "null", "0"}

\* The candidate key paths of the three fields, in the order of storage.py:297-324
AspiCandidates ==
    <<<<"aspi", "value">>, <<"asi">>, <<"reqMarketSummery", "aspi", "value">>,
      <<"reqMarketSummery", "asi">>>>

SnpCandidates ==
    <<<<"snp", "value">>, <<"spp">>, <<"spt">>, <<"reqMarketSummery", "snp", "value">>,
      <<"reqMarketSummery", "spp">>, <<"reqMarketSummery", "spt">>>>

TurnoverCandidates ==
    <<<<"tradeVolume">>, <<"marketTurnover">>, <<"turnover">>,
      <<"reqMarketSummery", "tradeVolume">>, <<"reqMarketSummery", "marketTurnover">>,
      <<"reqMarketSummery", "turnover">>>>

\* The value of the first candidate that resolves, or the default
FirstResolved(p, candidates) ==
    IF \E i \in DOMAIN candidates : Resolves(p, candidates[i])
    THEN p[candidates[CHOOSE i \in DOMAIN candidates :
                         /\ Resolves(p, candidates[i])
                         /\ \A j \in 1..(i - 1) : ~Resolves(p, candidates[j])]]
    ELSE "0.0"

\* Claim C15: the resolution of a market-summary payload yields, for each of
\* aspi_value, snp_value and market_turnover, the value of the first candidate key
\* path of that field, in the field's priority order, whose traversal succeeds
\* with a truthy value, and the default 0.0 exactly when no candidate of the field
\* does; each field depends on its own candidates only.
C15_FirstTruthyCandidate ==
    output.exc # "pending" =>
        /\ output.exc = "none"
        /\ output.aspi_value = FirstResolved(input, AspiCandidates)
        /\ output.snp_value = FirstResolved(input, SnpCandidates)
        /\ output.market_turnover = FirstResolved(input, TurnoverCandidates)

\* The first-candidate law on the payloads whose resolution completes
FirstTruthyUnlessRaised ==
    output.exc = "none" =>
        /\ output.aspi_value = FirstResolved(input, AspiCandidates)
        /\ output.snp_value = FirstResolved(input, SnpCandidates)
        /\ output.market_turnover = FirstResolved(input, TurnoverCandidates)

\* Claim C16: aspi_value is resolved with reqMarketSummery.aspi.value before the
\* top-level asi.  For a payload in which both are truthy the resolved aspi_value
\* is the value at reqMarketSummery.aspi.value, and for a payload whose only key
\* is a truthy asi it is the value of asi.  (Stated of the payloads whose
\* resolution completes; the others are the subject of C14.)
C16_AspiPriority ==
    output.exc = "none" =>
        /\ (/\ Resolves(input, <<"reqMarketSummery", "aspi", "value">>)
            /\ Resolves(input, <<"asi">>))
              => output.aspi_value = input[<<"reqMarketSummery", "aspi", "value">>]
        /\ (/\ Resolves(input, <<"asi">>)
            /\ \A path \in Paths \ {<<"asi">>} : input[path] = "absent")
              => output.aspi_value = input[<<"asi">>]

\* The second half of C16 alone: a payload that carries only asi
OnlyAsiResolvesToAsi ==
    (/\ output.exc # "pending"
     /\ Resolves(input, <<"asi">>)
     /\ \A path \in Paths \ {<<"asi">>} : input[path] = "absent")
        => output.exc = "none" /\ output.aspi_value = input[<<"asi">>]

----------------------------------------------------------------------------
(* Properties: response shape normalization *)

\* The shapes of a response
IsSequence(response) == ~response.wrapped /\ response.value.kind = "list"
HoldsSequence(response) == response.wrapped /\ response.value.kind = "list"
LacksWrapperKey(response) == ~response.wrapped /\ response.value.kind = "map"

\* The three rules of the normalization, of a response and the records it yields
YieldsRecords(response, records) ==
    /\ IsSequence(response) \/ HoldsSequence(response) => records = response.value
    /\ LacksWrapperKey(response) => records = EmptyList

\* The statement of C17 as it stands: the three rules at the three places, the
\* tradeSummary response of get_active_symbols included
C17_NormalizationRules ==
    \A i \in DOMAIN output :
        IF input.fn = "build_symbol_reference"
        THEN /\ YieldsRecords(input.a, output[i].items)
             /\ output[i].sector_list.kind # "unset"
                   => YieldsRecords(input.b, output[i].sector_list)
        ELSE YieldsRecords(input.a, output[i].items)

\* Claim C17: response shape normalization.  In build_symbol_reference, for the
\* price snapshot and (once the price loop is through) the sector snapshot, and
\* in get_active_symbols for tradeSummary: a response that is a sequence yields
\* that sequence unchanged and a mapping that holds a sequence under the wrapper
\* key yields that sequence.  A mapping that lacks the wrapper key yields an
\* empty sequence in build_symbol_reference; in get_active_symbols it yields
\* the records of the todaySharePrice backup response, by the same three rules.
C17_NormalizationWithBackup ==
    \A i \in DOMAIN output :
        IF input.fn = "build_symbol_reference"
        THEN /\ YieldsRecords(input.a, output[i].items)
             /\ output[i].sector_list.kind # "unset"
                   => YieldsRecords(input.b, output[i].sector_list)
        ELSE /\ IsSequence(input.a) \/ HoldsSequence(input.a)
                   => output[i].items = input.a.value
             /\ LacksWrapperKey(input.a) => YieldsRecords(input.b, output[i].items)

\* C17 happens: get_active_symbols has been given a tradeSummary mapping without
\* the wrapper key and a backup list with a record, and has returned its symbol
C17_Witness ==
    /\ input.fn = "get_active_symbols"
    /\ LacksWrapperKey(input.a)
    /\ IsSequence(input.b)
    /\ Len(output) = 1
    /\ output[1].items = input.b.value
    /\ output[1].ret = <<"LOLC.N0000">>

\* A response that holds something other than a sequence under the wrapper key,
\* or that is neither a sequence nor a mapping
NotASequence(response) ==
    \/ response.wrapped /\ response.value.kind # "list"
    \/ ~response.wrapped /\ response.value.kind \notin {"list", "map"}

\* Claim C18: a response whose wrapper key holds a value that is not a sequence
\* (null, a number, a string, a mapping), or that is neither a sequence nor a
\* mapping, yields an empty sequence of records and no exception.  With such a
\* price response and such a sector response build_symbol_reference completes with
\* an empty reference; with such a tradeSummary response (and such a backup
\* response, where one is requested) get_active_symbols returns no symbols.
C18_NonSequenceYieldsNothing ==
    \A i \in DOMAIN output :
        IF input.fn = "build_symbol_reference"
        THEN /\ NotASequence(input.a) => output[i].items = EmptyList
             /\ NotASequence(input.b) /\ output[i].sector_list.kind # "unset"
                   => output[i].sector_list = EmptyList
             /\ NotASequence(input.a) /\ NotASequence(input.b)
                   => output[i].exc = "none" /\ output[i].reference = <<>>
        ELSE NotASequence(input.a) /\ NotASequence(input.b)
                   => /\ output[i].exc = "none"
                      /\ output[i].ret = <<>>
                      /\ Falsy(output[i].items)

\* What does hold of such responses: a response that is neither a sequence nor a
\* mapping yields nothing in build_symbol_reference, and so does null under the
\* wrapper key in get_active_symbols
NonContainersYieldNothing ==
    \A i \in DOMAIN output :
        IF input.fn = "build_symbol_reference"
        THEN ~input.a.wrapped /\ NotASequence(input.a) => output[i].items = EmptyList
        ELSE input.a.wrapped /\ input.a.value.kind = "null"
                => output[i].exc = "none" /\ output[i].ret = <<>>

----------------------------------------------------------------------------
(* get_security_type (storage.py:45-70) applied on its own.  A symbol is the
   absent value None or a string, given as the sequence of its characters. *)

MaxSymbolLen == 4   \* characters of a symbol, the two examples apart

SymbolChars == {".", "U", "R", "X", "N", "A"}

None == [absent |-> TRUE, chars |-> <<>>]

Str(chars) == [absent |-> FALSE, chars |-> chars]

\* 'LOLC.N0000' and 'ABC.X0000'
ExampleSymbols ==
    {Str(<<"L", "O", "L", "C", ".", "N", "0", "0", "0", "0">>),
     Str(<<"A", "B", "C", ".", "X", "0", "0", "0", "0">>)}

SymbolInputs ==
    {None} \cup ExampleSymbols
           \cup {Str(s) : s \in UNION {[1..n -> SymbolChars] : n \in 0..MaxSymbolLen}}

\* sub in symbol: the string sub occurs in the string symbol
In(sub, symbol) ==
    \E i \in 1..(Len(symbol) - Len(sub) + 1) : SubSeq(symbol, i, i + Len(sub) - 1) = sub

\* A variant of get_security_type: the test for '.N' comes first
get_security_type_normal_first(symbol) ==
    CASE symbol.absent \/ symbol.chars = <<>> -> "UNKNOWN"
      [] In(<<".", "N">>, symbol.chars) -> "NORMAL_STOCK"
      [] In(<<".", "U">>, symbol.chars) -> "UNIT_TRUST"
      [] In(<<".", "R">>, symbol.chars) -> "RIGHTS_ISSUE"
      [] In(<<".", "X">>, symbol.chars) -> "OFF_BOARD"
      [] OTHER -> "OTHER"

\* storage.py:45-70
get_security_type(symbol) ==
    IF symbol.absent \/ symbol.chars = <<>> THEN "UNKNOWN"      \* if not symbol
    ELSE IF In(<<".", "U">>, symbol.chars) THEN "UNIT_TRUST"
    ELSE IF In(<<".", "R">>, symbol.chars) THEN "RIGHTS_ISSUE"
    ELSE IF In(<<".", "X">>, symbol.chars) THEN "OFF_BOARD"
    ELSE IF In(<<".", "N">>, symbol.chars) THEN "NORMAL_STOCK"
    ELSE "OTHER"

InitClassify ==
    /\ Idle
    /\ input \in SymbolInputs
    /\ output = "pending"

\* storage.py:336: security_type = self.get_security_type(symbol)
Classify ==
    /\ output = "pending"
    /\ output' = get_security_type(input)
    /\ UNCHANGED <<now, pc, symbol_refreshed_today, cyc, files, dirs, ref, csv, snap, env,
                   wlog, rlog, epoch, t0, input>>

NextClassify == Classify

ClassifySpec == InitClassify /\ [][NextClassify]_vars

----------------------------------------------------------------------------
(* Properties: the security type *)

\* The markers in the order of the checks, and the type each stands for
Markers == <<"U", "R", "X", "N">>
MarkerTypes == <<"UNIT_TRUST", "RIGHTS_ISSUE", "OFF_BOARD", "NORMAL_STOCK">>

\* The string has a dot followed by the letter
HasMarker(chars, letter) ==
    \E i \in 1..(Len(chars) - 1) : chars[i] = "." /\ chars[i + 1] = letter

\* Claim C19: get_security_type is total on the strings and the absent value and
\* returns one of the six types: UNKNOWN for an absent or empty symbol; otherwise
\* the type of the first of the markers '.U', '.R', '.X', '.N', in this order,
\* that the symbol contains, whatever other markers it contains; OTHER when it
\* contains none.  'LOLC.N0000' gives NORMAL_STOCK and 'ABC.X0000' OFF_BOARD.
C19_SecurityTypeTotal ==
    output # "pending" =>
        /\ output \in {"UNIT_TRUST", "RIGHTS_ISSUE", "OFF_BOARD", "NORMAL_STOCK", "OTHER",
                       "UNKNOWN"}
        /\ output = "UNKNOWN" <=> (input.absent \/ input.chars = <<>>)
        /\ \A k \in 1..4 :
              output = MarkerTypes[k] <=>
                 /\ HasMarker(input.chars, Markers[k])
                 /\ \A j \in 1..(k - 1) : ~HasMarker(input.chars, Markers[j])
        /\ output = "OTHER" <=>
              /\ input.chars # <<>>
              /\ \A k \in 1..4 : ~HasMarker(input.chars, Markers[k])
        /\ input = Str(<<"L", "O", "L", "C", ".", "N", "0", "0", "0", "0">>)
              => output = "NORMAL_STOCK"
        /\ input = Str(<<"A", "B", "C", ".", "X", "0", "0", "0", "0">>)
              => output = "OFF_BOARD"

\* C19 happens: a symbol with the markers '.N' and '.U', in this order, has been
\* classified as a unit trust
C19_Witness ==
    /\ input = Str(<<".", "N", ".", "U">>)
    /\ output = "UNIT_TRUST"

----------------------------------------------------------------------------
(* Properties: the reference table *)

\* A reference file without its generated_at field
SansGeneratedAt(file) == [file EXCEPT !.generated_at = 0]

\* Claim C20: build_symbol_reference is idempotent.  Of any two calls with the
\* same price and sector snapshots, whatever the reference file held before the
\* first: both raise the same exception or neither raises, and two calls that
\* return their mapping return equal mappings and each leaves a reference file
\* that holds that mapping and differs from the other's in generated_at at most.
C20_RebuildIdempotent ==
    \A i \in DOMAIN output, j \in DOMAIN output :
        /\ output[i].exc = output[j].exc
        /\ (output[i].ret = "reference" /\ output[j].ret = "reference") =>
              /\ output[i].reference = output[j].reference
              /\ output[i].file.state = "complete"
              /\ output[i].file.symbols = output[i].reference
              /\ SansGeneratedAt(output[i].file) = SansGeneratedAt(output[j].file)

\* C20 happens: the reference file held another table, and two calls on the same
\* snapshots, at different instants, have each returned a mapping of two symbols
C20_Witness ==
    /\ Len(output) = 2
    /\ output[1].ret = "reference"
    /\ output[2].ret = "reference"
    /\ Len(output[1].reference) = 2
    /\ output[1].file.generated_at # output[2].file.generated_at
    /\ ref = output[2].file

\* The symbols of a sequence of records or entries
SymbolsOf(records) == {records[k].symbol : k \in DOMAIN records}

\* Claim C21: the mapping that build_symbol_reference returns has one entry for
\* each distinct non-empty symbol of the extracted price records and none for a
\* record without a symbol; each entry carries the company name and the sector of
\* one price record with its symbol, and a null sector_index; the file written
\* holds that mapping alone, whatever it held before, with a symbol_count equal
\* to the number of entries, and it is the one reference file.
C21_ReferenceTable ==
    \A i \in DOMAIN output :
        output[i].ret = "reference" =>
            LET records == output[i].items.items
                reference == output[i].reference
            IN  /\ SymbolsOf(reference) = SymbolsOf(records) \ {""}
                /\ \A k \in DOMAIN reference, m \in DOMAIN reference :
                      reference[k].symbol = reference[m].symbol => k = m
                /\ \A k \in DOMAIN reference :
                      /\ reference[k].sector_index = "None"
                      /\ \E m \in DOMAIN records :
                            /\ records[m].symbol = reference[k].symbol
                            /\ records[m].name = reference[k].company_name
                            /\ records[m].sector = reference[k].sector
                /\ output[i].file.symbols = reference
                /\ output[i].file.symbol_count = Cardinality(SymbolsOf(records) \ {""})
                /\ i = Len(output) => ref = output[i].file

\* C21 happens: over a reference file that held another table, a call whose price
\* list has two records of one symbol, with different names, has returned a
\* mapping of one entry
C21_Witness ==
    /\ Len(output) = 1
    /\ output[1].ret = "reference"
    /\ Len(output[1].items.items) = 2
    /\ output[1].items.items[1].symbol = "LOLC.N0000"
    /\ output[1].items.items[2].symbol = "LOLC.N0000"
    /\ output[1].items.items[1].name # output[1].items.items[2].name
    /\ ref.symbol_count = 1
    /\ "OLD.N0000" \notin SymbolsOf(ref.symbols)

----------------------------------------------------------------------------
(* Properties: the legacy files, the artifacts and the schedule *)

\* Claim C22: the append to the legacy history file is all-or-nothing for each
\* cycle.  Once _save_legacy_formats has returned, the history file holds, of the
\* cycle's rows, either every one of them whole or none: an I/O failure during the
\* append leaves no row of the cycle behind, whole or in part.
C22_AppendAllOrNothing ==
    pc # "stopped" =>
        \A k \in DOMAIN csv :
            /\ csv[k].state = "complete"
            /\ \A i \in DOMAIN cyc.company_data_list :
                  csv[k].timestamp = cyc.timestamp =>
                      \E m \in DOMAIN csv :
                          /\ csv[m].timestamp = cyc.timestamp
                          /\ csv[m].symbol = cyc.company_data_list[i].symbol

\* Claim C23: every artifact that save_endpoint_data has written is a mapping
\* with exactly the keys fetched_at, source and data, holding the timestamp of the
\* save, the source name and the payload as it was given; and the artifact's place
\* (directory and file name) is given by the source name and the minute of the
\* timestamp alone.
C23_ArtifactEnvelope ==
    \A i \in DOMAIN wlog :
        wlog[i].opened =>
            LET k == <<wlog[i].endpoint, wlog[i].minute>>
            IN  /\ k \in DOMAIN files
                /\ (i = Len(wlog) \/ \A j \in (i + 1)..Len(wlog) :
                                        ~(wlog[j].opened /\ wlog[j].endpoint = wlog[i].endpoint
                                                         /\ wlog[j].minute = wlog[i].minute))
                      => /\ files[k].state = "complete"
                         /\ DOMAIN files[k] = {"state", "fetched_at", "source", "data"}
                         /\ files[k].fetched_at = wlog[i].ts
                         /\ files[k].source = wlog[i].endpoint
                         /\ files[k].data = wlog[i].data

\* What the saves that return a path leave behind: a whole artifact at the place
\* given by the endpoint name and the minute, with the keys fetched_at, endpoint
\* and data
SuccessfulSaveEnvelope ==
    (wlog # <<>> /\ wlog[Len(wlog)].ret = "path") =>
        LET e == wlog[Len(wlog)]
            k == <<e.endpoint, e.minute>>
        IN  /\ k \in DOMAIN files
            /\ files[k] = [state |-> "complete", fetched_at |-> e.ts,
                           endpoint |-> e.endpoint, data |-> e.data]

\* The instant t, a time in UTC+5:30, is on Monday to Friday and from 09:00 to
\* 14:35
InTradingWindow(t) ==
    /\ Weekday(t) \in 0..4
    /\ At(0, MARKET_OPEN_HOUR, MARKET_OPEN_MINUTE) <= TickOfDay(t)
    /\ TickOfDay(t) <= At(0, MARKET_CLOSE_HOUR, MARKET_CLOSE_MINUTE)

\* Claim C24: the market-hours predicate is evaluated on the UTC+5:30 clock,
\* whatever the zone of the host.  A step from a wake-up starts a poll cycle only
\* when the time in UTC+5:30 is on Monday to Friday within 09:00 to 14:35, and
\* takes the market-closed sleep only when it is not; so no poll cycle starts on
\* a Saturday or a Sunday of UTC+5:30.
C24_MarketHoursInFixedZone ==
    [][pc = "wake" =>
          /\ pc' = "status" => InTradingWindow(now)
          /\ (pc' = "wake" /\ now' = now + Ticks(CLOSED_SLEEP_SECONDS)) => ~InTradingWindow(now)
      ]_vars

\* On a host in UTC+5:30 the predicate is the one of the claim
MarketHoursOnColomboHost ==
    [][(pc = "wake" /\ env.zone = 0) =>
          /\ pc' = "status" => InTradingWindow(now)
          /\ (pc' = "wake" /\ now' = now + Ticks(CLOSED_SLEEP_SECONDS)) => ~InTradingWindow(now)
      ]_vars

----------------------------------------------------------------------------
(* The mock chart data of CSEClient.get_chart_data.  Prices are in thousandths
   of a rupee, so that rounding to two decimals does something; timestamps are
   in seconds, a thousandth of the code's, to stay within 32 bits; the draws of
   random.uniform come from a few values of each range, in an order fixed by a
   seed that repeats with a period of at most MaxPeriod *)

MaxPeriod == 2

\* cse_client.py:84, in seconds
day_ms == 24 * 60 * 60

\* cse_client.py:88, 90, 96
MOCK_START_PRICE == 150000
MOCK_DAYS == 365
MOCK_PRICE_FLOOR == 10000

\* One iteration's draws: random.uniform(-2, 2.1), random.uniform(0, 3) twice.
\* The second and third differ by an even number, so that the mean of high and
\* low is a whole number of thousandths.
Draws == [change : {-2000, 2095}, up : {0, 3000}, down : {4, 3000}]

Seeds == UNION {[1..n -> Draws] : n \in 1..MaxPeriod}

\* cse_client.py:83, time.time() at the call, in seconds
ClockReadings == {0, 1762300800}

\* round(x, 2): to the nearest hundredth, a tie to the even one
round2(x) ==
    LET down == x - (x % 10)
    IN  IF x % 10 < 5 THEN down
        ELSE IF x % 10 > 5 THEN down + 10
        ELSE IF (down \div 10) % 2 = 0 THEN down ELSE down + 10

\* A variant of walk without line 96
walk_unfloored(price, change) == price + change

\* cse_client.py:95-96
walk(price, change) ==
    IF price + change < MOCK_PRICE_FLOOR THEN MOCK_PRICE_FLOOR ELSE price + change

\* The draws of iteration i (i = 0 for the first)
DrawOf(seed, i) == seed[(i % Len(seed)) + 1]

\* cse_client.py:90-96: the prices after each of the iterations first..last-1
\* that start with the given price; a longer run is its first half followed by
\* its second half, which starts with the last price of the first
Iterations(seed, start, first, last) ==
    LET run[price \in Int, a \in Nat, b \in Nat] ==
            IF a >= b THEN <<>>
            ELSE IF b = a + 1 THEN <<walk(price, DrawOf(seed, a).change)>>
            ELSE LET left == run[price, a, (a + b) \div 2]
                 IN  left \o run[left[Len(left)], (a + b) \div 2, b]
    IN  run[start, first, last]

\* cse_client.py:91-110, the point of iteration i
point(current_time_ms, price, draw, i) ==
    LET high == price + draw.up
        low == price - draw.down
        open_p == (high + low) \div 2
    IN  [t |-> current_time_ms - ((MOCK_DAYS - i) * day_ms),
         p |-> round2(price), o |-> round2(open_p), h |-> round2(high), l |-> round2(low)]

\* cse_client.py:63-117.  posted: the requests the call sends (line 72 is a
\* comment, so none)
get_chart_data(symbol, current_time_ms, seed) ==
    LET price == Iterations(seed, MOCK_START_PRICE, 0, MOCK_DAYS)
    IN  [posted |-> <<>>,
         reqTradeSummery |->
            [chartData |->
                [k \in 1..MOCK_DAYS |->
                    point(current_time_ms, price[k], DrawOf(seed, k - 1), k - 1)]]]

\* test_mock_data.py:18 and two more
ChartSymbols == {Str(<<"J", "K", "H", ".", "N", "0", "0", "0", "0">>)} \cup ExampleSymbols

InitChart ==
    /\ Idle
    /\ input \in [symbol : ChartSymbols, time : ClockReadings, seed : Seeds,
                  network : {"up", "down"}]
    /\ output = <<>>

\* test_mock_data.py:16-18: data = client.get_chart_data("JKH.N0000")
GetChartData ==
    /\ output = <<>>
    /\ output' = <<get_chart_data(input.symbol, input.time, input.seed)>>
    /\ UNCHANGED <<now, pc, symbol_refreshed_today, cyc, files, dirs, ref, csv, snap, env,
                   wlog, rlog, epoch, t0, input>>

NextChart == GetChartData

ChartSpec == InitChart /\ [][NextChart]_vars

----------------------------------------------------------------------------
(* Properties: the mock chart data *)

\* Claim C25: get_chart_data returns, for every symbol and with no request sent
\* (so whatever the network does), a mapping with reqTradeSummery.chartData a
\* sequence of 365 points with strictly increasing timestamps t, each point with
\* the keys t, p, o, h, l, p never below 10 and l <= o <= h.
C25_MockChartData ==
    output # <<>> =>
        LET chartData == output[1].reqTradeSummery.chartData
        IN  /\ output[1].posted = <<>>
            /\ DOMAIN chartData = 1..365
            /\ \A k \in 1..364 : chartData[k].t < chartData[k + 1].t
            /\ \A k \in 1..365 :
                  /\ DOMAIN chartData[k] = {"t", "p", "o", "h", "l"}
                  /\ chartData[k].p >= 10000
                  /\ chartData[k].l <= chartData[k].o
                  /\ chartData[k].o <= chartData[k].h

\* A call with the network down in which the price has reached the floor of 10
\* and a point has its low, open and high all different
C25_Witness ==
    /\ output # <<>>
    /\ input.network = "down"
    /\ \E k \in 1..365 : output[1].reqTradeSummery.chartData[k].p = 10000
    /\ \E k \in 1..365 :
          LET q == output[1].reqTradeSummery.chartData[k]
          IN  q.l < q.o /\ q.o < q.h

----------------------------------------------------------------------------
(* Properties: the requests of a cycle *)

\* config.py:90-95
BLACKLISTED_ENDPOINTS ==
    {"chartData", "companyChartDataByStock", "detailedTrades", "mostActiveTrades"}

\* Claim C26: no request of run_pipeline goes to a blacklisted endpoint
\* (chartData, companyChartDataByStock, detailedTrades, mostActiveTrades), in any
\* cycle and on any fallback path of the fetcher.
C26_NoBlacklistedRequest ==
    \A i \in DOMAIN cyc.posted : cyc.posted[i] \notin BLACKLISTED_ENDPOINTS

\* The second cycle of a run has come to its end through the backup request of
\* get_active_symbols and the company requests
C26_Witness ==
    /\ pc = "end"
    /\ cyc.no = 2
    /\ \E i \in DOMAIN cyc.posted :
          /\ i + 2 \in DOMAIN cyc.posted
          /\ cyc.posted[i] = "tradeSummary"
          /\ cyc.posted[i + 1] = "todaySharePrice"
          /\ cyc.posted[i + 2] = "companyInfoSummery"

----------------------------------------------------------------------------
(* Properties: the market-closed sleep *)

\* Claim C27: a step from a wake-up at which the market-hours predicate is false
\* requests nothing and writes nothing, sets the refreshed-today flag to false
\* and, unless it is interrupted, sleeps 900 s and comes back to the wake-up;
\* the body of a poll cycle is entered only by a step from a wake-up at which
\* the predicate is true.
C27_ClosedMarketSleeps ==
    [][/\ (pc = "wake" /\ ~is_market_hours(datetime_now)) =>
             /\ UNCHANGED <<cyc, files, dirs, ref, csv, snap, wlog>>
             /\ ~symbol_refreshed_today'
             /\ \/ pc' = "wake" /\ now' = now + Ticks(900)
                \/ pc' = "stopped" /\ now' = now
       /\ (pc' = "status" \/ cyc'.no # cyc.no) =>
             /\ pc = "wake"
             /\ is_market_hours(datetime_now)
      ]_vars

\* The scheduler has slept through a closed market that followed a cycle in
\* which the reference table was rebuilt and the flag set
C27_Witness ==
    /\ pc = "wake"
    /\ ~symbol_refreshed_today
    /\ \E i \in DOMAIN rlog : rlog[i].invoked /\ rlog[i].result = "reference"

----------------------------------------------------------------------------
(* Properties: the lists of succeeded and failed sources *)

\* The sources a cycle attempts in steps 1 to 8
CycleSources ==
    {"marketStatus", "marketSummery", "tradeSummary", "todaySharePrice", "aspiData",
     "snpData", "allSectors", "topGainers", "topLooses"}

\* The number of times the name occurs in the list
Occurrences(list, name) == Cardinality({i \in DOMAIN list : list[i] = name})

\* Claim C28: at the end of every completed poll cycle each source attempted is
\* in exactly one of the lists of succeeded and failed sources, once: in the
\* succeeded list if its fetch returned a payload, in the failed list if the
\* result was absent; no source is missing from both.
C28_EverySourceListedOnce ==
    pc = "end" =>
        \A e \in CycleSources :
            /\ Occurrences(cyc.endpoints_fetched, e) + Occurrences(cyc.endpoints_failed, e) = 1
            /\ Occurrences(cyc.endpoints_failed, e) = 1 <=> e \in cyc.absent

\* The sources other than the two movers are listed as the claim says
OtherSourcesListedOnce ==
    pc = "end" =>
        \A e \in CycleSources \ {"topGainers", "topLooses"} :
            /\ Occurrences(cyc.endpoints_fetched, e) + Occurrences(cyc.endpoints_failed, e) = 1
            /\ Occurrences(cyc.endpoints_failed, e) = 1 <=> e \in cyc.absent

----------------------------------------------------------------------------
(* Properties: a refresh whose write fails *)

\* Claim C29: when build_symbol_reference returns its failure indicator, the
\* step produces no new complete reference table; and when step 9 of the cycle
\* before returned the failure indicator and this cycle is inside the refresh
\* window of the same day with both inputs, step 9 invokes
\* build_symbol_reference again.
C29_FailedRefreshRetried ==
    [][pc = "refresh" =>
         /\ (rlog'[Len(rlog')].invoked /\ rlog'[Len(rlog')].result = "None") =>
               (ref'.state = "complete" => ref' = ref)
         /\ (/\ rlog # <<>>
             /\ rlog[Len(rlog)].cycle + 1 = cyc.no
             /\ rlog[Len(rlog)].epoch = epoch
             /\ rlog[Len(rlog)].invoked
             /\ rlog[Len(rlog)].result = "None"
             /\ should_refresh_symbols(datetime_now)
             /\ Truthy(cyc.share_prices)
             /\ Truthy(cyc.all_sectors)) =>
               rlog'[Len(rlog')].invoked]_vars

\* A refresh whose write fails produces no new complete reference table
FailedRefreshProducesNothing ==
    [][pc = "refresh" =>
         ((rlog'[Len(rlog')].invoked /\ rlog'[Len(rlog')].result = "None") =>
               (ref'.state = "complete" => ref' = ref))]_vars

----------------------------------------------------------------------------
(* Properties: the sector pass *)

\* Claim C30: the sector pass of build_symbol_reference never alters the result.
\* Two calls with the same price snapshot and any two sector snapshots have the
\* same outcome: both raise the same exception or neither raises, they return
\* the same mapping and they leave the same symbols table in the reference file.
C30_SectorPassAltersNothing ==
    Len(output) = 2 =>
        /\ output[1].exc = output[2].exc
        /\ output[1].ret = output[2].ret
        /\ output[1].reference = output[2].reference
        /\ output[1].file = output[2].file

\* Two calls that both come through the sector pass have the same outcome
CompletedSectorPassAltersNothing ==
    (Len(output) = 2 /\ output[1].exc = "none" /\ output[2].exc = "none") =>
        /\ output[1].ret = output[2].ret
        /\ output[1].reference = output[2].reference
        /\ output[1].file = output[2].file

----------------------------------------------------------------------------
(* Step 10 on company records: the company loop of a cycle (main.py:211-232)
   and the legacy writer (storage.py:271-404), with the symbol each record
   carries.  Here csv holds the lines of the history file, the header first. *)

\* The symbols of the tradeSummary records, in the order of sorted()
TradeSymbols == <<"ABC.N0000", "XYZ.N0000", "abc.N0000">>

\* fetcher.py:143: symbol.upper()
upper(symbol) == IF symbol = "abc.N0000" THEN "ABC.N0000" ELSE symbol

\* fetcher.py:121-129: the lists get_active_symbols can return, sorted and
\* without repetition
SymbolLists ==
    {SelectSeq(TradeSymbols, LAMBDA s : s \in S) :
        S \in SUBSET {TradeSymbols[i] : i \in DOMAIN TradeSymbols}}

\* What the server answers to a companyInfoSummery request:
\*   none   nothing (fetcher._post returns None)
\*   empty  a mapping whose reqSymbolInfo is empty
\*   info   a mapping whose reqSymbolInfo describes the symbol requested
\*   odd    a non-empty list
InfoResponses == {"none", "empty", "info", "odd"}

Servers == [{upper(TradeSymbols[i]) : i \in DOMAIN TradeSymbols} -> InfoResponses]

\* fetcher.py:132-143: the response to the request for the symbol
get_company_info(server, symbol) ==
    [shape |-> server[upper(symbol)], symbol |-> upper(symbol)]

\* main.py:218-229: the company loop; line 224 keeps the truthy responses
RECURSIVE company_loop(_, _)
company_loop(server, symbols) ==
    IF symbols = <<>> THEN <<>>
    ELSE LET info == get_company_info(server, Head(symbols))
         IN  (IF info.shape # "none" THEN <<info>> ELSE <<>>)
                \o company_loop(server, Tail(symbols))

\* The gainers and the losers lists of the cycle: the symbols of their entries
MoverLists == {<<>>, <<"ABC.N0000">>, <<"XYZ.N0000", "ABC.N0000">>}

\* storage.py:91-100: the history file after __init__, from the lines it held
\* (<<>> if there was no file); the header is not written when open() fails
HeaderLine == [line |-> "header"]

initialize_csv(lines, out) ==
    IF lines # <<>> THEN lines
    ELSE IF out = "ok" THEN <<HeaderLine>> ELSE <<>>

\* storage.py:276-283
mover_symbols(entries) == {entries[i] : i \in DOMAIN entries} \ {""}

\* storage.py:329-332: the records with a non-empty reqSymbolInfo
HasInfo(company) == company.shape = "info"

\* A variant of csv_row: the flags exchanged
csv_row_swapped(timestamp, company, gainers, losers) ==
    [line |-> "row", timestamp |-> timestamp, symbol |-> company.symbol,
     is_gainer |-> IF company.symbol \in mover_symbols(losers) THEN 1 ELSE 0,
     is_loser |-> IF company.symbol \in mover_symbols(gainers) THEN 1 ELSE 0]

\* storage.py:334-367: the row of a record (the columns copied from the
\* record and the market values are left out)
csv_row(timestamp, company, gainers, losers) ==
    [line |-> "row", timestamp |-> timestamp, symbol |-> company.symbol,
     is_gainer |-> IF company.symbol \in mover_symbols(gainers) THEN 1 ELSE 0,
     is_loser |-> IF company.symbol \in mover_symbols(losers) THEN 1 ELSE 0]

\* storage.py:370-378
clean_data(row) ==
    [timestamp |-> row.timestamp, symbol |-> row.symbol,
     is_gainer |-> row.is_gainer = 1, is_loser |-> row.is_loser = 1]

NoSnapshot == [state |-> "absent", timestamp |-> 0, companies |-> <<>>]

\* storage.py:271-404 on company records.  c holds the lines of the history
\* file and sn the latest snapshot; outCsv and outJson are what the file system
\* does at lines 384-386 and 400-401.  A record that is a list has no .get:
\* line 330 raises AttributeError before anything is written.
save_legacy_records(c, sn, timestamp, company_data_list, gainers, losers, outCsv, outJson) ==
    LET kept == SelectSeq(company_data_list, HasInfo)
        csv_rows == [i \in DOMAIN kept |-> csv_row(timestamp, kept[i], gainers, losers)]
        snapshot == [state |-> "complete", timestamp |-> timestamp,
                     companies |-> [i \in DOMAIN csv_rows |-> clean_data(csv_rows[i])]]
        c1 == CASE csv_rows = <<>> -> c
                [] outCsv = "ok" -> c \o csv_rows
                [] outCsv = "open_fail" -> c
                [] OTHER -> c \o SubSeq(csv_rows, 1, Len(csv_rows) - 1)
                              \o <<[csv_rows[Len(csv_rows)] EXCEPT !.line = "partial"]>>
        s1 == CASE outJson = "ok" -> snapshot
                [] outJson = "open_fail" -> sn
                [] OTHER -> [snapshot EXCEPT !.state = "partial"]
    IN  IF \E i \in DOMAIN company_data_list : company_data_list[i].shape = "odd"
        THEN [csv |-> c, snap |-> sn, exc |-> "AttributeError", csv_rows |-> <<>>]
        ELSE [csv |-> c1, snap |-> s1, exc |-> "none", csv_rows |-> csv_rows]

\* An earlier cycle's row
EarlierRow == csv_row(0, [shape |-> "info", symbol |-> "XYZ.N0000"], <<>>, <<>>)

\* The instant of the cycle
LegacyCycleTime == At(0, MARKET_OPEN_HOUR, MARKET_OPEN_MINUTE)

InitLegacy ==
    /\ now = LegacyCycleTime
    /\ t0 = 0
    /\ pc = "symbols"
    /\ symbol_refreshed_today = FALSE
    /\ cyc = NoCycle
    /\ files = NoFiles
    /\ dirs = {}
    /\ ref = NoRef
    /\ \E lines \in {<<>>, <<HeaderLine>>, <<HeaderLine, EarlierRow>>},
          out \in {"ok", "open_fail"} :
          /\ lines # <<>> => out = "ok"
          /\ csv = initialize_csv(lines, out)
    /\ snap = NoSnapshot
    /\ env = [absent |-> 0, faults |-> 0, limEvents |-> 0, limFaults |-> 0, limCycles |-> 0,
              zone |-> 0]
    /\ wlog = <<>>
    /\ rlog = <<>>
    /\ epoch = 0
    /\ input \in [symbols : SymbolLists, server : Servers,
                  gainers : MoverLists, losers : MoverLists]
    /\ output = <<>>

\* main.py:212-229: the symbols, then the company loop when there are some
CompanyLoop ==
    /\ pc = "symbols"
    /\ IF input.symbols # <<>>
       THEN /\ pc' = "snapshot"
            /\ output' = <<[company_data_list |-> company_loop(input.server, input.symbols)]>>
       ELSE /\ pc' = "end"
            /\ output' = output
    /\ UNCHANGED <<now, symbol_refreshed_today, cyc, files, dirs, ref, csv, snap, env,
                   wlog, rlog, epoch, t0, input>>

\* main.py:232 with storage.py:268-269: the legacy writer of the cycle
SaveLegacy ==
    /\ pc = "snapshot"
    /\ \E outCsv \in {"ok", "open_fail", "write_fail"}, outJson \in {"ok", "open_fail", "write_fail"} :
         LET l == save_legacy_records(csv, snap, get_timestamp(now), output[1].company_data_list,
                                      input.gainers, input.losers, outCsv, outJson)
         IN  /\ (l.exc # "none" \/ l.csv_rows = <<>>) => outCsv = "ok"
             /\ l.exc # "none" => outJson = "ok"
             /\ csv' = l.csv
             /\ snap' = l.snap
             /\ pc' = AfterStep(l.exc, "end")
             /\ output' = Append(output, [before |-> csv, exc |-> l.exc, csv_rows |-> l.csv_rows,
                                          outCsv |-> outCsv, outJson |-> outJson])
    /\ UNCHANGED <<now, symbol_refreshed_today, cyc, files, dirs, ref, env,
                   wlog, rlog, epoch, t0, input>>

NextLegacy == CompanyLoop \/ SaveLegacy

LegacySpec == InitLegacy /\ [][NextLegacy]_vars

----------------------------------------------------------------------------
(* Properties: the company records of a cycle *)

\* The lines the writer of the cycle has added to the history file
Appended == SubSeq(csv, Len(output[2].before) + 1, Len(csv))

\* The members of the sequence are pairwise different in their symbol
DistinctSymbols(records) ==
    \A i \in DOMAIN records, j \in DOMAIN records :
        records[i].symbol = records[j].symbol => i = j

\* Claim C31: within one poll cycle the company records are unique by symbol.
\* The rows the cycle appends to the legacy history have pairwise distinct
\* symbols, and so have the company entries of the latest snapshot the cycle
\* writes, for every symbol list (symbols that differ only in letter case
\* included) and every companyInfoSummery response.
C31_CompanySymbolsUnique ==
    Len(output) = 2 =>
        /\ DistinctSymbols(Appended)
        /\ snap.timestamp = get_timestamp(now) => DistinctSymbols(snap.companies)

\* Symbols that differ in more than letter case give records unique by symbol
UniqueWhenNoCaseVariants ==
    (Len(output) = 2 /\ \A i \in DOMAIN input.symbols, j \in DOMAIN input.symbols :
                            upper(input.symbols[i]) = upper(input.symbols[j]) => i = j) =>
        /\ DistinctSymbols(Appended)
        /\ snap.timestamp = get_timestamp(now) => DistinctSymbols(snap.companies)

----------------------------------------------------------------------------
(* Properties: the cadence of the poll cycles *)

\* Claim C32: after a completed poll cycle the scheduler sleeps
\* max(0, POLL_INTERVAL_SECONDS - elapsed).  The sleep is never negative, it is
\* 0 when the cycle took at least the poll interval, and it ends no earlier than
\* a poll interval after the start of the cycle; the clock never goes back and a
\* cycle starts at the instant of its wake-up, so while no failure has happened a
\* poll cycle starts at least a poll interval after the start of the one before.
C32_PollCadence ==
    [][/\ now' >= now
       /\ (pc = "end" /\ pc' = "wake") =>
             LET elapsed == now - cyc.cycle_start
             IN  /\ now' - now >= 0
                 /\ elapsed >= Ticks(60) => now' = now
                 /\ elapsed < Ticks(60) => now' - now = Ticks(60) - elapsed
                 /\ now' >= cyc.cycle_start + Ticks(60)
       /\ (pc = "wake" /\ pc' = "status") =>
             /\ cyc'.cycle_start = now
             /\ (cyc.no > 0 /\ env.faults = 0) =>
                   cyc'.cycle_start >= cyc.cycle_start + Ticks(60)
      ]_vars

\* The second cycle of a run without a failure has started, a poll interval or
\* less after step 9 of the first: the first took less than the interval and
\* the scheduler slept the rest of it
C32_Witness ==
    /\ pc = "status"
    /\ cyc.no = 2
    /\ env.faults = 0
    /\ rlog # <<>>
    /\ rlog[Len(rlog)].cycle = 1
    /\ cyc.cycle_start <= rlog[Len(rlog)].at + Ticks(60)

----------------------------------------------------------------------------
(* Properties: the legacy writer *)

\* The company records of the cycle that have a non-empty reqSymbolInfo
RecordsWithInfo == SelectSeq(output[1].company_data_list, HasInfo)

\* The symbols of the entries of a mover list
EntrySymbols(entries) == {entries[i] : i \in DOMAIN entries}

\* The line is the row of the record, with the flags of the claim
RowOf(row, company) ==
    /\ row.line = "row"
    /\ row.timestamp = get_timestamp(now)
    /\ row.symbol = company.symbol
    /\ row.is_gainer = 1 <=> company.symbol \in EntrySymbols(input.gainers)
    /\ row.is_loser = 1 <=> company.symbol \in EntrySymbols(input.losers)
    /\ row.is_gainer \in {0, 1}
    /\ row.is_loser \in {0, 1}

\* The history file and the latest snapshot are what the claim says they are
\* after the writer has run
LegacyWritten ==
    /\ Len(csv) = Len(output[2].before) + Len(RecordsWithInfo)
    /\ SubSeq(csv, 1, Len(output[2].before)) = output[2].before
    /\ \A i \in DOMAIN RecordsWithInfo :
          RowOf(csv[Len(output[2].before) + i], RecordsWithInfo[i])
    /\ snap.state = "complete"
    /\ snap.timestamp = get_timestamp(now)
    /\ Len(snap.companies) = Len(RecordsWithInfo)
    /\ \A i \in DOMAIN RecordsWithInfo :
          /\ snap.companies[i].symbol = RecordsWithInfo[i].symbol
          /\ snap.companies[i].is_gainer <=> RecordsWithInfo[i].symbol \in EntrySymbols(input.gainers)
          /\ snap.companies[i].is_loser <=> RecordsWithInfo[i].symbol \in EntrySymbols(input.losers)

\* Claim C33: whenever the legacy writer runs in a cycle it appends exactly one
\* row for each company record with a non-empty reqSymbolInfo, after all the
\* lines already in the history file, which stay as they were; is_gainer
\* (is_loser) of a row is 1 exactly when the record's symbol is the symbol of an
\* entry of the cycle's gainers (losers) list; and it overwrites the latest
\* snapshot so that it holds exactly those records of this cycle with the same
\* flags.
C33_LegacyWriterAppends ==
    Len(output) = 2 => LegacyWritten

\* The same of a run of the writer in which no record raises and no write fails
LegacyWriterWhenWritesSucceed ==
    (/\ Len(output) = 2
     /\ output[2].exc = "none"
     /\ output[2].outJson = "ok"
     /\ output[2].outCsv = "ok") => LegacyWritten

\* The lines already in the history file stay as they were, whatever happens
HistoryOnlyGrows ==
    Len(output) = 2 =>
        /\ Len(csv) >= Len(output[2].before)
        /\ SubSeq(csv, 1, Len(output[2].before)) = output[2].before

----------------------------------------------------------------------------
(* Properties: the refreshed-today flag and the error backoff *)

\* Step 9 has invoked build_symbol_reference on the day of the instant t and the
\* call returned
RefreshedOn(day) ==
    \E i \in DOMAIN rlog :
       rlog[i].day = day /\ rlog[i].invoked /\ rlog[i].result # "raised"

\* No call of build_symbol_reference has returned since the last market-closed
\* wake-up
NotRefreshedSinceClosed ==
    \A i \in DOMAIN rlog :
       rlog[i].epoch = epoch => (~rlog[i].invoked \/ rlog[i].result = "raised")

\* An exception left the cycle before this one ahead of line 206: before step 9
\* was reached, or out of build_symbol_reference
PreviousCycleFailedEarly ==
    /\ cyc.no > 1
    /\ \/ \A i \in DOMAIN rlog : rlog[i].cycle # cyc.no - 1
       \/ \E i \in DOMAIN rlog : rlog[i].cycle = cyc.no - 1 /\ rlog[i].result = "raised"

\* Claim C34: the error backoff leaves the refreshed-today flag as it is; the
\* flag becomes true only in a step 9 in which build_symbol_reference was invoked
\* and false only at a market-closed wake-up; once a call of the day has
\* returned, no later step 9 of that day invokes build_symbol_reference,
\* whatever failed in between; and after a cycle that an exception left before
\* the flag was set, a step 9 inside the refresh window finds the flag unset and
\* invokes build_symbol_reference when both inputs are there.
C34_BackoffKeepsRefreshFlag ==
    [][/\ pc = "backoff" => symbol_refreshed_today' = symbol_refreshed_today
       /\ (~symbol_refreshed_today /\ symbol_refreshed_today') =>
             /\ pc = "refresh"
             /\ Len(rlog') = Len(rlog) + 1
             /\ rlog'[Len(rlog')].invoked
       /\ (symbol_refreshed_today /\ ~symbol_refreshed_today') =>
             /\ pc = "wake"
             /\ ~is_market_hours(datetime_now)
       /\ pc = "refresh" =>
             LET e == rlog'[Len(rlog')]
             IN  /\ RefreshedOn(DayOf(now)) => ~e.invoked
                 /\ (PreviousCycleFailedEarly /\ NotRefreshedSinceClosed /\ e.window) =>
                       /\ ~e.flag
                       /\ HasRefreshInputs(e.prices, e.sectors) => e.invoked]_vars

\* Step 9 of the second cycle is skipped inside the refresh window: the first
\* cycle refreshed the table and was then left by an exception of a save
C34_Witness ==
    /\ pc = "symbols"
    /\ cyc.no = 2
    /\ Len(rlog) = 2
    /\ rlog[1].cycle = 1 /\ rlog[1].invoked /\ rlog[1].result = "reference"
    /\ rlog[2].cycle = 2 /\ rlog[2].epoch = rlog[1].epoch
    /\ rlog[2].window /\ rlog[2].flag /\ ~rlog[2].invoked
    /\ \E i \in DOMAIN wlog : wlog[i].cycle = 1 /\ wlog[i].exc \notin {"none", "KeyboardInterrupt"}
    /\ symbol_refreshed_today

\* Step 9 of the second cycle invokes build_symbol_reference after the call of
\* the first cycle raised
RefreshedAfterRaisingCall ==
    /\ pc = "symbols"
    /\ cyc.no = 2
    /\ Len(rlog) = 2
    /\ rlog[1].cycle = 1 /\ rlog[1].result = "raised"
    /\ rlog[2].cycle = 2 /\ rlog[2].epoch = rlog[1].epoch /\ rlog[2].invoked

\* Step 9 of the second cycle invokes build_symbol_reference after the first
\* cycle was left before step 9
RefreshedAfterEarlyFailure ==
    /\ pc = "symbols"
    /\ cyc.no = 2
    /\ Len(rlog) = 1
    /\ rlog[1].cycle = 2 /\ rlog[1].invoked

====
